---- MODULE Spec2Model ----
(***************************************************************************)
(* Readable-content extraction, keyword mining, chart building and the     *)
(* Word report parser of the chat backend's export path.                   *)
(*                                                                         *)
(* A Python str is modelled as a sequence of one-character strings, so     *)
(* that slicing, strip(), startswith(), split(), regular-expression        *)
(* matching, json.loads and html.unescape are computed character by        *)
(* character as the code computes them.                                    *)
(***************************************************************************)
EXTENDS Integers, Sequences, FiniteSets, TLC

(***************************************************************************)
(* Python str primitives                                                   *)
(***************************************************************************)
IsWs(c) == c \in {" ", "\n", "\t", "\r"}

IsDigit(c) == c \in {"0", "1", "2", "3", "4", "5", "6", "7", "8", "9"}

DigitVal(c) ==
  CASE c = "0" -> 0 [] c = "1" -> 1 [] c = "2" -> 2 [] c = "3" -> 3
    [] c = "4" -> 4 [] c = "5" -> 5 [] c = "6" -> 6 [] c = "7" -> 7
    [] c = "8" -> 8 [] c = "9" -> 9

DigitChar(d) == <<"0", "1", "2", "3", "4", "5", "6", "7", "8", "9">>[d + 1]

\* int(s) for a run of decimal digits
RECURSIVE StrToInt(_)
StrToInt(s) ==
  IF s = <<>> THEN 0
  ELSE 10 * StrToInt(SubSeq(s, 1, Len(s) - 1)) + DigitVal(s[Len(s)])

\* str(n) for an int
RECURSIVE NatToStr(_)
NatToStr(n) ==
  IF n < 10 THEN <<DigitChar(n)>>
  ELSE NatToStr(n \div 10) \o <<DigitChar(n % 10)>>

IntToStr(n) == IF n < 0 THEN <<"-">> \o NatToStr(0 - n) ELSE NatToStr(n)

UpperToLower ==
  [A |-> "a", B |-> "b", C |-> "c", D |-> "d", E |-> "e", F |-> "f",
   G |-> "g", H |-> "h", I |-> "i", J |-> "j", K |-> "k", L |-> "l",
   M |-> "m", N |-> "n", O |-> "o", P |-> "p", Q |-> "q", R |-> "r",
   S |-> "s", T |-> "t", U |-> "u", V |-> "v", W |-> "w", X |-> "x",
   Y |-> "y", Z |-> "z"]

LowerChar(c) == IF c \in DOMAIN UpperToLower THEN UpperToLower[c] ELSE c

\* str.lower()
ToLower(s) == [i \in 1..Len(s) |-> LowerChar(s[i])]

\* s[i-1:].startswith(p), i counted from 1
StartsWithAt(s, i, p) ==
  /\ i >= 1
  /\ i + Len(p) - 1 <= Len(s)
  /\ \A k \in 1..Len(p) : s[i + k - 1] = p[k]

StartsWith(s, p) == StartsWithAt(s, 1, p)

\* the first position >= from at which p occurs in s, or 0
Find(s, p, from) ==
  LET hits == {i \in from..(Len(s) - Len(p) + 1) : StartsWithAt(s, i, p)}
  IN IF hits = {} THEN 0 ELSE CHOOSE i \in hits : \A j \in hits : i <= j

\* the first position >= from holding the character c, or 0
FindChar(s, c, from) == Find(s, <<c>>, from)

\* s[i-1:] as a sequence (i counted from 1)
Drop(s, n) == SubSeq(s, n + 1, Len(s))

\* str.strip()
Strip(s) ==
  LET keep == {i \in 1..Len(s) : ~IsWs(s[i])}
  IN IF keep = {} THEN <<>>
     ELSE SubSeq(s, CHOOSE i \in keep : \A j \in keep : i <= j,
                    CHOOSE i \in keep : \A j \in keep : i >= j)

\* sep.join(parts) for a list of str
RECURSIVE Join(_, _)
Join(parts, sep) ==
  IF parts = <<>> THEN <<>>
  ELSE IF Len(parts) = 1 THEN parts[1]
  ELSE parts[1] \o sep \o Join(Tail(parts), sep)

\* s.split(sep) for a one-character separator
RECURSIVE Split(_, _)
Split(s, c) ==
  LET p == FindChar(s, c, 1)
  IN IF p = 0 THEN <<s>>
     ELSE <<SubSeq(s, 1, p - 1)>> \o Split(Drop(s, p), c)

(***************************************************************************)
(* JSON values as json.loads builds them.  Every value is a record of the  *)
(* same shape: t is the Python type, s the characters of a str, n the      *)
(* number (or 0/1 of a bool), ks/vs the keys and values of a dict in       *)
(* insertion order, vs the elements of a list.                             *)
(***************************************************************************)
JV(t, s, n, ks, vs) == [t |-> t, s |-> s, n |-> n, ks |-> ks, vs |-> vs]

JNull == JV("null", <<>>, 0, <<>>, <<>>)
JStr(s) == JV("str", s, 0, <<>>, <<>>)
JNum(n) == JV("num", <<>>, n, <<>>, <<>>)
JBool(b) == JV("bool", <<>>, IF b THEN 1 ELSE 0, <<>>, <<>>)
JList(vs) == JV("list", <<>>, 0, <<>>, vs)
JDict(ks, vs) == JV("dict", <<>>, 0, ks, vs)
EmptyStr == JStr(<<>>)
EmptyList == JList(<<>>)
EmptyDict == JDict(<<>>, <<>>)

IsDict(v) == v.t = "dict"
IsList(v) == v.t = "list"
IsStr(v) == v.t = "str"

\* key in d, for a dict d
HasKey(d, k) == \E i \in 1..Len(d.ks) : d.ks[i] = k

KeyIndex(d, k) == CHOOSE i \in 1..Len(d.ks) : d.ks[i] = k

\* d.get(k, default), for a dict d
Get(d, k, default) == IF HasKey(d, k) THEN d.vs[KeyIndex(d, k)] ELSE default

\* d[k] = v, for a dict d: a repeated key keeps its place and takes the new value
DictSet(d, k, v) ==
  IF HasKey(d, k)
  THEN JDict(d.ks, [d.vs EXCEPT ![KeyIndex(d, k)] = v])
  ELSE JDict(Append(d.ks, k), Append(d.vs, v))

\* bool(v)
Truthy(v) ==
  CASE v.t = "null" -> FALSE
    [] v.t = "str" -> v.s # <<>>
    [] v.t = "num" -> v.n # 0
    [] v.t = "bool" -> v.n = 1
    [] v.t = "list" -> v.vs # <<>>
    [] v.t = "dict" -> v.ks # <<>>

\* a or b
POr(a, b) == IF Truthy(a) THEN a ELSE b

\* repr(v) and str(v); a str is quoted by repr with single quotes
RECURSIVE PyRepr(_), PyReprList(_), PyReprItems(_, _)
PyRepr(v) ==
  CASE v.t = "null" -> <<"N","o","n","e">>
    [] v.t = "str" -> <<"'">> \o v.s \o <<"'">>
    [] v.t = "num" -> IntToStr(v.n)
    [] v.t = "bool" -> IF v.n = 1 THEN <<"T","r","u","e">> ELSE <<"F","a","l","s","e">>
    [] v.t = "list" -> <<"[">> \o Join(PyReprList(v.vs), <<","," ">>) \o <<"]">>
    [] v.t = "dict" -> <<"{">> \o Join(PyReprItems(v.ks, v.vs), <<","," ">>) \o <<"}">>
PyReprList(vs) ==
  IF vs = <<>> THEN <<>> ELSE <<PyRepr(vs[1])>> \o PyReprList(Tail(vs))
PyReprItems(ks, vs) ==
  IF ks = <<>> THEN <<>>
  ELSE <<<<"'">> \o ks[1] \o <<"'",":"," ">> \o PyRepr(vs[1])>>
       \o PyReprItems(Tail(ks), Tail(vs))

PyStr(v) == IF v.t = "str" THEN v.s ELSE PyRepr(v)

(***************************************************************************)
(* json.loads: a recursive-descent parse of a str.  A parse result is      *)
(* [ok, v, i]: i is the position after the value.  Numbers are the         *)
(* integers (an optional minus sign, then 0 or a digit run not starting    *)
(* with 0); a control character inside a string                            *)
(* literal is an error, as in the strict decoder.                          *)
(***************************************************************************)
ParseFail == [ok |-> FALSE, v |-> JNull, i |-> 0]
ParseOk(v, i) == [ok |-> TRUE, v |-> v, i |-> i]

IsJsonWs(c) == c \in {" ", "\t", "\n", "\r"}

RECURSIVE SkipWs(_, _)
SkipWs(s, i) == IF i <= Len(s) /\ IsJsonWs(s[i]) THEN SkipWs(s, i + 1) ELSE i

JsonEscapes == {"\"", "\\", "/", "n", "t", "r", "f"}

Unescaped(c) ==
  CASE c = "n" -> "\n" [] c = "t" -> "\t" [] c = "r" -> "\r" [] c = "f" -> "\f"
    [] OTHER -> c

\* the body of a string literal from position i, the opening quote consumed
RECURSIVE ScanString(_, _, _)
ScanString(s, i, acc) ==
  IF i > Len(s) THEN ParseFail
  ELSE IF s[i] = "\"" THEN ParseOk(JStr(acc), i + 1)
  ELSE IF s[i] = "\\"
       THEN IF i + 1 <= Len(s) /\ s[i + 1] \in JsonEscapes
            THEN ScanString(s, i + 2, Append(acc, Unescaped(s[i + 1])))
            ELSE ParseFail
  ELSE IF s[i] \in {"\n", "\t", "\r", "\f"} THEN ParseFail
  ELSE ScanString(s, i + 1, Append(acc, s[i]))

RECURSIVE DigitsEnd(_, _)
DigitsEnd(s, i) == IF i <= Len(s) /\ IsDigit(s[i]) THEN DigitsEnd(s, i + 1) ELSE i

\* an integer literal at position i
ScanNumber(s, i) ==
  LET neg == s[i] = "-"
      d == IF neg THEN i + 1 ELSE i
  IN IF d > Len(s) \/ ~IsDigit(s[d]) THEN ParseFail
     ELSE LET e == IF s[d] = "0" THEN d + 1 ELSE DigitsEnd(s, d)
              n == StrToInt(SubSeq(s, d, e - 1))
          IN ParseOk(JNum(IF neg THEN 0 - n ELSE n), e)

RECURSIVE ParseValue(_, _), ParseMembers(_, _, _), ParseElems(_, _, _)
ParseValue(s, i) ==
  IF i > Len(s) THEN ParseFail
  ELSE IF s[i] = "\"" THEN ScanString(s, i + 1, <<>>)
  ELSE IF s[i] = "{"
       THEN LET j == SkipWs(s, i + 1)
            IN IF j <= Len(s) /\ s[j] = "}" THEN ParseOk(EmptyDict, j + 1)
               ELSE ParseMembers(s, j, EmptyDict)
  ELSE IF s[i] = "["
       THEN LET j == SkipWs(s, i + 1)
            IN IF j <= Len(s) /\ s[j] = "]" THEN ParseOk(EmptyList, j + 1)
               ELSE ParseElems(s, j, <<>>)
  ELSE IF StartsWithAt(s, i, <<"n","u","l","l">>) THEN ParseOk(JNull, i + 4)
  ELSE IF StartsWithAt(s, i, <<"t","r","u","e">>) THEN ParseOk(JBool(TRUE), i + 4)
  ELSE IF StartsWithAt(s, i, <<"f","a","l","s","e">>) THEN ParseOk(JBool(FALSE), i + 5)
  ELSE IF s[i] = "-" \/ IsDigit(s[i]) THEN ScanNumber(s, i)
  ELSE ParseFail

\* the members of an object from position i, where a key must start
ParseMembers(s, i, d) ==
  IF i > Len(s) \/ s[i] # "\"" THEN ParseFail
  ELSE LET key == ScanString(s, i + 1, <<>>)
       IN IF ~key.ok THEN ParseFail
          ELSE LET c == SkipWs(s, key.i)
               IN IF c > Len(s) \/ s[c] # ":" THEN ParseFail
                  ELSE LET val == ParseValue(s, SkipWs(s, c + 1))
                       IN IF ~val.ok THEN ParseFail
                          ELSE LET m == SkipWs(s, val.i)
                                   d2 == DictSet(d, key.v.s, val.v)
                               IN IF m > Len(s) THEN ParseFail
                                  ELSE IF s[m] = "}" THEN ParseOk(d2, m + 1)
                                  ELSE IF s[m] = ","
                                       THEN ParseMembers(s, SkipWs(s, m + 1), d2)
                                  ELSE ParseFail

\* the elements of an array from position i, where a value must start
ParseElems(s, i, vs) ==
  LET val == ParseValue(s, i)
  IN IF ~val.ok THEN ParseFail
     ELSE LET m == SkipWs(s, val.i)
              vs2 == Append(vs, val.v)
          IN IF m > Len(s) THEN ParseFail
             ELSE IF s[m] = "]" THEN ParseOk(JList(vs2), m + 1)
             ELSE IF s[m] = "," THEN ParseElems(s, SkipWs(s, m + 1), vs2)
             ELSE ParseFail

\* json.loads(s): [ok, v]; ok is FALSE where json.JSONDecodeError is raised
JsonLoads(s) ==
  LET r == ParseValue(s, SkipWs(s, 1))
  IN IF ~r.ok THEN ParseFail
     ELSE IF SkipWs(s, r.i) <= Len(s) THEN ParseFail
     ELSE r

(***************************************************************************)
(* html.unescape for the character references &amp; &lt; &gt; &quot;       *)
(* (the trailing semicolon is optional for these four names).              *)
(***************************************************************************)
EntityNames == <<<<"a","m","p">>, <<"l","t">>, <<"g","t">>, <<"q","u","o","t">>>>
EntityChars == <<"&", "<", ">", "\"">>

EntityAt(s, i) ==
  LET hits == {k \in 1..Len(EntityNames) : StartsWithAt(s, i + 1, EntityNames[k])}
  IN IF s[i] # "&" \/ hits = {} THEN 0 ELSE CHOOSE k \in hits : TRUE

\* the last position of the character reference starting at i
EntityEnd(s, i) ==
  LET e == i + Len(EntityNames[EntityAt(s, i)])
  IN IF e + 1 <= Len(s) /\ s[e + 1] = ";" THEN e + 1 ELSE e

\* html.unescape(s): every reference is replaced by its character; references
\* cannot overlap, a name holding no "&"
HtmlUnescape(s) ==
  LET starts == {i \in 1..Len(s) : EntityAt(s, i) > 0}
      inside(i) == \E p \in starts : p < i /\ i <= EntityEnd(s, p)
      kept == SelectSeq([i \in 1..Len(s) |-> i], LAMBDA i : ~inside(i))
  IN [n \in 1..Len(kept) |->
        IF kept[n] \in starts THEN EntityChars[EntityAt(s, kept[n])]
        ELSE s[kept[n]]]

(***************************************************************************)
(* ContentExtractor.  A call either returns a str or lets an exception     *)
(* propagate: a result is [raised, text].  Inside _extract_component the   *)
(* list `parts` holds Python values (an f-string is a str, but a field     *)
(* appended as it is keeps its own type): a partial result is              *)
(* [raised, parts].                                                        *)
(***************************************************************************)
XRaise == [raised |-> TRUE, text |-> <<>>]
XOk(text) == [raised |-> FALSE, text |-> text]
PRaise == [raised |-> TRUE, parts |-> <<>>]
POk(parts) == [raised |-> FALSE, parts |-> parts]

\* the key and field names the extractor reads
K ==
  [component |-> <<"c","o","m","p","o","n","e","n","t">>, props |-> <<"p","r","o","p","s">>,
   content |-> <<"c","o","n","t","e","n","t">>, children |-> <<"c","h","i","l","d","r","e","n">>,
   sections |-> <<"s","e","c","t","i","o","n","s">>, items |-> <<"i","t","e","m","s">>, rows |-> <<"r","o","w","s">>,
   iconName |-> <<"i","c","o","n","N","a","m","e">>, iconCategory |-> <<"i","c","o","n","C","a","t","e","g","o","r","y">>,
   variant |-> <<"v","a","r","i","a","n","t">>, type |-> <<"t","y","p","e">>, isFoldable |-> <<"i","s","F","o","l","d","a","b","l","e">>,
   value |-> <<"v","a","l","u","e">>, title |-> <<"t","i","t","l","e">>, heading |-> <<"h","e","a","d","i","n","g">>,
   subtitle |-> <<"s","u","b","t","i","t","l","e">>, description |-> <<"d","e","s","c","r","i","p","t","i","o","n">>,
   textMarkdown |-> <<"t","e","x","t","M","a","r","k","d","o","w","n">>, text |-> <<"t","e","x","t">>,
   amount |-> <<"a","m","o","u","n","t">>, lhs |-> <<"l","h","s">>,
   tableHeader |-> <<"t","a","b","l","e","H","e","a","d","e","r">>, tableBody |-> <<"t","a","b","l","e","B","o","d","y">>,
   chartData |-> <<"c","h","a","r","t","D","a","t","a">>, data |-> <<"d","a","t","a">>, labels |-> <<"l","a","b","e","l","s">>,
   series |-> <<"s","e","r","i","e","s">>, category |-> <<"c","a","t","e","g","o","r","y">>, values |-> <<"v","a","l","u","e","s">>,
   trigger |-> <<"t","r","i","g","g","e","r">>, headerLeft |-> <<"h","e","a","d","e","r","L","e","f","t">>,
   headerRight |-> <<"h","e","a","d","e","r","R","i","g","h","t">>, mediumLeft |-> <<"m","e","d","i","u","m","L","e","f","t">>,
   mediumRight |-> <<"m","e","d","i","u","m","R","i","g","h","t">>]

\* the keys tried in the order of their names
SpecialKeysByName ==
  <<K.children, K.component, K.content, K.items, K.rows, K.sections>>

SpecialKeys ==
  <<K.component, K.content, K.children, K.sections, K.items, K.rows>>

\* a list of skipped keys without the bare value key
SkippedKeysButValue ==
  {K.iconName, K.iconCategory, K.variant, K.type, K.isFoldable}

SkippedKeys ==
  {K.iconName, K.iconCategory, K.variant, K.type, K.isFoldable, K.value}

HeaderKinds == {<<"h","e","a","d","e","r">>, <<"i","n","l","i","n","e","h","e","a","d","e","r">>}
TextKinds == {<<"t","e","x","t","c","o","n","t","e","n","t">>, <<"t","e","x","t">>, <<"p","a","r","a","g","r","a","p","h">>}
TileKinds == {<<"d","a","t","a","t","i","l","e">>, <<"m","i","n","i","c","a","r","d">>}
ChartKinds ==
  {<<"b","a","r","c","h","a","r","t","v","2">>, <<"b","a","r","c","h","a","r","t">>, <<"p","i","e","c","h","a","r","t","v","2">>, <<"p","i","e","c","h","a","r","t">>,
   <<"l","i","n","e","c","h","a","r","t","v","2">>, <<"l","i","n","e","c","h","a","r","t">>}
LayoutSlots == <<K.headerLeft, K.headerRight, K.mediumLeft, K.mediumRight>>

\* iter(v): a list yields its elements, a str its characters, a dict its keys;
\* anything else raises TypeError
Iterable(v) == v.t \in {"list", "str", "dict"}

IterItems(v) ==
  CASE v.t = "list" -> v.vs
    [] v.t = "str" -> [i \in 1..Len(v.s) |-> JStr(<<v.s[i]>>)]
    [] v.t = "dict" -> [i \in 1..Len(v.ks) |-> JStr(v.ks[i])]
    [] OTHER -> <<>>

\* for item in items: parts = Body(parts, item), an exception ending the loop
RECURSIVE ForEach(_, _, _)
ForEach(Body(_, _), items, acc) ==
  IF acc.raised \/ items = <<>> THEN acc
  ELSE ForEach(Body, Tail(items), Body(acc.parts, items[1]))

\* for item in v: ..., where v is any Python value
LoopOver(Body(_, _), v, parts) ==
  IF ~Iterable(v) THEN PRaise ELSE ForEach(Body, IterItems(v), POk(parts))

\* x in parts
InParts(x, parts) == \E i \in 1..Len(parts) : parts[i] = x

Fmt(s) == <<JStr(s)>>

\* "\n".join(filter(None, parts)): TypeError when a kept part is not a str
JoinParts(parts) ==
  LET kept == SelectSeq(parts, Truthy)
  IN IF \E i \in 1..Len(kept) : ~IsStr(kept[i]) THEN XRaise
     ELSE XOk(Join([i \in 1..Len(kept) |-> kept[i].s], <<"\n">>))

\* one list item of a "list" component
ListItemParts(item) ==
  IF IsDict(item)
  THEN LET title == Get(item, K.title, EmptyStr)
           subtitle == Get(item, K.subtitle, EmptyStr)
           value == Get(item, K.value, EmptyStr)
       IN IF ~Truthy(title) THEN <<>>
          ELSE IF Truthy(value)
               THEN Fmt(<<"-"," ">> \o PyStr(title) \o <<":"," ">> \o PyStr(value))
          ELSE IF Truthy(subtitle)
               THEN Fmt(<<"-"," ","*","*">> \o PyStr(title) \o <<"*","*",":"," ">> \o PyStr(subtitle))
          ELSE Fmt(<<"-"," ">> \o PyStr(title))
  ELSE IF IsStr(item) THEN Fmt(<<"-"," ">> \o item.s)
  ELSE <<>>

\* "| " + " | ".join(str(c) for c in cells) + " |"
PipeLine(cells) ==
  <<"|"," ">> \o Join([i \in 1..Len(cells) |-> PyStr(cells[i])], <<" ","|"," ">>) \o <<" ","|">>

HeaderCell(cell) ==
  IF IsDict(cell) THEN JStr(PyStr(Get(cell, K.children, EmptyStr)))
  ELSE JStr(PyStr(cell))

\* the header line and the separator line of a "table" component
HeaderLines(header_rows) ==
  LET cells == IterItems(header_rows)
      header_cells == [i \in 1..Len(cells) |-> HeaderCell(cells[i])]
  IN IF header_cells = <<>> THEN <<>>
     ELSE Fmt(PipeLine(header_cells))
          \o Fmt(PipeLine([i \in 1..Len(header_cells) |-> JStr(<<"-","-","-">>)]))

\* one body row of a "table" component
RowLine(row) ==
  IF IsDict(row)
  THEN LET cells == Get(row, K.children, EmptyList)
       IN IF IsList(cells) THEN Fmt(PipeLine(cells.vs)) ELSE <<>>
  ELSE IF IsList(row) THEN Fmt(PipeLine(row.vs))
  ELSE <<>>

\* bullets that stop after the first pair
ZipFirstPair(parts, labels, values) ==
  IF ~Iterable(labels) \/ ~Iterable(values) THEN PRaise
  ELSE IF IterItems(labels) = <<>> \/ IterItems(values) = <<>> THEN POk(parts)
  ELSE POk(Append(parts,
             JStr(<<"-"," ">> \o PyStr(IterItems(labels)[1]) \o <<":"," ">>
                  \o PyStr(IterItems(values)[1]))))

\* for label, value in zip(labels, values): parts.append(f"- {label}: {value}")
ZipBullets(parts, labels, values) ==
  IF ~Iterable(labels) \/ ~Iterable(values) THEN PRaise
  ELSE LET ls == IterItems(labels)
           vs == IterItems(values)
           n == IF Len(ls) <= Len(vs) THEN Len(ls) ELSE Len(vs)
       IN POk(parts \o [i \in 1..n |->
                 JStr(<<"-"," ">> \o PyStr(ls[i]) \o <<":"," ">> \o PyStr(vs[i]))])

\* one record of a chart whose data is a list of {category, value}
PieItemParts(item) ==
  IF IsDict(item)
  THEN LET cat == Get(item, K.category, EmptyStr)
           val == Get(item, K.value, EmptyStr)
       IN IF Truthy(cat) /\ val.t # "null"
          THEN Fmt(<<"-"," ">> \o PyStr(cat) \o <<":"," ">> \o PyStr(val))
          ELSE <<>>
  ELSE <<>>

RECURSIVE ExtractAll(_), ExtractComponent(_), ExtractValues(_, _),
          AppendComponent(_, _), KindParts(_, _), PostStep(_, _)

\* if extracted: parts.append(extracted)
Extracted(parts, extracted) ==
  IF extracted.raised THEN PRaise
  ELSE IF extracted.text # <<>> THEN POk(Append(parts, extracted.text))
  ELSE POk(parts)

\* for v in values: extracted = self._extract_all(v); ..., an exception
\* ending the loop
ExtractValues(values, acc) ==
  IF acc.raised \/ values = <<>> THEN acc
  ELSE ExtractValues(Tail(values), Extracted(acc.parts, ExtractAll(values[1])))

\* return "\n\n".join(parts)
JoinBlocks(r) == IF r.raised THEN XRaise ELSE XOk(Join(r.parts, <<"\n","\n">>))

\* if not parts: the values under every key that is not skipped
OrOtherValues(data, special) ==
  IF special.raised \/ special.parts # <<>> THEN special
  ELSE LET others == SelectSeq([i \in 1..Len(data.ks) |-> i],
                       LAMBDA i : data.ks[i] \notin SkippedKeys)
       IN ExtractValues([i \in 1..Len(others) |-> data.vs[others[i]]], POk(<<>>))

\* _extract_all
ExtractAll(data) ==
  CASE data.t = "null" -> XOk(<<>>)
    [] data.t = "str" -> XOk(data.s)
    [] data.t \in {"num", "bool"} -> XOk(PyStr(data))
    [] data.t = "list" -> JoinBlocks(ExtractValues(data.vs, POk(<<>>)))
    [] data.t = "dict" ->
         IF HasKey(data, K.component) THEN ExtractComponent(data)
         ELSE LET present == SelectSeq(SpecialKeys, LAMBDA k : HasKey(data, k))
              IN JoinBlocks(OrOtherValues(data,
                   ExtractValues([i \in 1..Len(present) |->
                                    Get(data, present[i], JNull)], POk(<<>>))))

\* if isinstance(c, dict): parts.append(self._extract_component(c))
Appended(parts, r) ==
  IF r.raised THEN PRaise ELSE POk(Append(parts, JStr(r.text)))

AppendComponent(parts, c) ==
  IF ~IsDict(c) THEN POk(parts) ELSE Appended(parts, ExtractComponent(c))

\* the branch of _extract_component for comp_type: the parts it emits
KindParts(comp_type, props) ==
  IF comp_type \in HeaderKinds THEN
    IF ~IsDict(props) THEN PRaise
    ELSE LET title == POr(Get(props, K.title, EmptyStr),
                          Get(props, K.heading, EmptyStr))
             subtitle == POr(Get(props, K.subtitle, EmptyStr),
                             Get(props, K.description, EmptyStr))
         IN POk((IF Truthy(title) THEN Fmt(<<"#","#"," ">> \o PyStr(title)) ELSE <<>>)
                \o (IF Truthy(subtitle) THEN <<subtitle>> ELSE <<>>))
  ELSE IF comp_type \in TextKinds THEN
    IF ~IsDict(props) THEN PRaise
    ELSE LET text == POr(POr(Get(props, K.textMarkdown, EmptyStr),
                             Get(props, K.text, EmptyStr)),
                         Get(props, K.content, EmptyStr))
         IN POk(IF Truthy(text) THEN <<text>> ELSE <<>>)
  ELSE IF comp_type \in TileKinds THEN
    IF ~IsDict(props) THEN PRaise
    ELSE LET amount == Get(props, K.amount, EmptyStr)
             description == Get(props, K.description, EmptyStr)
             own == IF Truthy(amount) /\ Truthy(description)
                    THEN Fmt(<<"*","*">> \o PyStr(description) \o <<"*","*",":"," ">>
                             \o PyStr(amount))
                    ELSE <<>>
         IN AppendComponent(own, Get(props, K.lhs, JNull))
  ELSE IF comp_type = <<"c","a","r","d">> THEN
    IF ~IsDict(props) THEN PRaise
    ELSE LET title == Get(props, K.title, EmptyStr)
             value == Get(props, K.value, EmptyStr)
         IN POk(IF ~Truthy(title) THEN <<>>
                ELSE IF Truthy(value)
                     THEN Fmt(<<"*","*">> \o PyStr(title) \o <<"*","*",":"," ">> \o PyStr(value))
                ELSE Fmt(<<"*","*">> \o PyStr(title) \o <<"*","*">>))
  ELSE IF comp_type = <<"l","i","s","t">> THEN
    IF ~IsDict(props) THEN PRaise
    ELSE LET heading == Get(props, K.heading, EmptyStr)
             description == Get(props, K.description, EmptyStr)
             head == (IF Truthy(heading) THEN Fmt(<<"#","#","#"," ">> \o PyStr(heading))
                      ELSE <<>>)
                     \o (IF Truthy(description) THEN <<description>> ELSE <<>>)
         IN LoopOver(LAMBDA parts, item : POk(parts \o ListItemParts(item)),
                     Get(props, K.items, EmptyList), head)
  ELSE IF comp_type = <<"t","a","b","l","e">> THEN
    IF ~IsDict(props) THEN PRaise
    ELSE LET header == Get(props, K.tableHeader, EmptyDict)
             body == Get(props, K.tableBody, EmptyDict)
         IN IF ~IsDict(header) \/ ~IsDict(body) THEN PRaise
            ELSE LET header_rows == Get(header, K.rows, EmptyList)
                     body_rows == Get(body, K.rows, EmptyList)
                 IN IF Truthy(header_rows) /\ ~Iterable(header_rows) THEN PRaise
                    ELSE LoopOver(LAMBDA parts, row : POk(parts \o RowLine(row)),
                           body_rows,
                           IF Truthy(header_rows) THEN HeaderLines(header_rows)
                           ELSE <<>>)
  ELSE IF comp_type \in ChartKinds THEN
    IF ~IsDict(props) THEN PRaise
    ELSE LET title == POr(Get(props, K.title, EmptyStr),
                          Get(props, K.heading, EmptyStr))
             chart_data == Get(props, K.chartData, EmptyDict)
             head == IF Truthy(title) THEN Fmt(<<"#","#","#"," ">> \o PyStr(title))
                     ELSE <<>>
         IN IF ~IsDict(chart_data) THEN PRaise
            ELSE LET data == Get(chart_data, K.data, EmptyDict)
                 IN IF IsDict(data) THEN
                      LET labels == Get(data, K.labels, EmptyList)
                          series == Get(data, K.series, EmptyList)
                          from_series ==
                            LoopOver(
                              LAMBDA parts, s :
                                IF IsDict(s) /\ Truthy(labels)
                                   /\ Truthy(Get(s, K.values, EmptyList))
                                THEN ZipBullets(parts, labels,
                                                Get(s, K.values, EmptyList))
                                ELSE POk(parts),
                              series, head)
                          values == POr(Get(data, K.values, EmptyList),
                                        Get(data, K.data, EmptyList))
                      IN IF from_series.raised \/ Truthy(series) THEN from_series
                         ELSE IF Truthy(labels) /\ Truthy(values)
                              THEN ZipBullets(from_series.parts, labels, values)
                         ELSE from_series
                    ELSE IF IsList(data) THEN
                      LoopOver(LAMBDA parts, item :
                                 POk(parts \o PieItemParts(item)),
                               data, head)
                    ELSE POk(head)
  ELSE IF comp_type = <<"s","e","c","t","i","o","n","b","l","o","c","k">> THEN
    IF ~IsDict(props) THEN PRaise
    ELSE LoopOver(
           LAMBDA parts, section :
             IF ~IsDict(section) THEN POk(parts)
             ELSE LET trigger == Get(section, K.trigger, EmptyStr)
                  IN LoopOver(AppendComponent,
                       Get(section, K.content, EmptyList),
                       parts \o (IF Truthy(trigger)
                                 THEN Fmt(<<"#","#","#"," ">> \o PyStr(trigger))
                                 ELSE <<>>)),
           Get(props, K.sections, EmptyList), <<>>)
  ELSE IF comp_type = <<"l","a","y","o","u","t">> THEN
    IF ~IsDict(props) THEN PRaise
    ELSE LET children == Get(props, K.children, EmptyDict)
         IN IF ~IsDict(children) THEN POk(<<>>)
            ELSE LoopOver(
                   LAMBDA parts, row :
                     IF ~IsDict(row) THEN POk(parts)
                     ELSE ForEach(
                            LAMBDA ps, key :
                              IF ~HasKey(row, key) THEN POk(ps)
                              ELSE LET val == Get(row, key, JNull)
                                   IN IF IsDict(val) THEN AppendComponent(ps, val)
                                      ELSE IF IsList(val)
                                           THEN ForEach(AppendComponent, val.vs,
                                                        POk(ps))
                                      ELSE POk(ps),
                            LayoutSlots, POk(parts)),
                   Get(children, K.rows, EmptyList), <<>>)
  ELSE IF comp_type = <<"m","i","n","i","c","a","r","d","b","l","o","c","k">> THEN
    IF ~IsDict(props) THEN PRaise
    ELSE LoopOver(AppendComponent, Get(props, K.children, EmptyList), <<>>)
  ELSE POk(<<>>)

\* a post-step that appends what the branch of the kind has emitted already
AppendedAgain(parts, child_content) ==
  IF child_content.raised THEN PRaise
  ELSE IF child_content.text # <<>>
       THEN POk(Append(parts, JStr(child_content.text)))
  ELSE POk(parts)

\* if child_content and child_content not in parts: parts.append(child_content)
AppendedIfNew(parts, child_content) ==
  IF child_content.raised THEN PRaise
  ELSE IF child_content.text # <<>> /\ ~InParts(JStr(child_content.text), parts)
       THEN POk(Append(parts, JStr(child_content.text)))
  ELSE POk(parts)

\* the children/content arrays every component is searched for afterwards
PostStep(props, own) ==
  ForEach(
    LAMBDA parts, key :
      IF props.t \in {"null", "num", "bool"} THEN PRaise
      ELSE IF props.t = "str"
           THEN IF Find(props.s, key, 1) > 0 THEN PRaise ELSE POk(parts)
      ELSE IF props.t = "list"
           THEN IF InParts(JStr(key), props.vs) THEN PRaise ELSE POk(parts)
      ELSE IF ~HasKey(props, key) \/ ~IsList(Get(props, key, JNull))
           THEN POk(parts)
      ELSE ForEach(
             LAMBDA ps, child :
               IF ~IsDict(child) THEN POk(ps)
               ELSE AppendedIfNew(ps, ExtractComponent(child)),
             Get(props, key, JNull).vs, POk(parts)),
    <<K.children, K.content>>, own)

\* the parts of the component's kind, then those of the post-step
WithChildren(props, own) == IF own.raised THEN own ELSE PostStep(props, own)

\* return "\n".join(filter(None, parts))
JoinLines(all) == IF all.raised THEN XRaise ELSE JoinParts(all.parts)

\* _extract_component
ExtractComponent(comp) ==
  LET comp_type_val == Get(comp, K.component, EmptyStr)
      comp_type == IF IsStr(comp_type_val) THEN ToLower(comp_type_val.s)
                   ELSE <<>>
      props == Get(comp, K.props, EmptyDict)
  IN IF IsDict(comp_type_val) THEN ExtractComponent(comp_type_val)
     ELSE JoinLines(WithChildren(props, KindParts(comp_type, props)))

\* re.search(r"<content[^>]*>(.*?)</content>", s, re.DOTALL): [found, group]
ContentMatch(s) ==
  LET opens == {p \in 1..Len(s) :
                  /\ StartsWithAt(s, p, <<"<","c","o","n","t","e","n","t">>)
                  /\ FindChar(s, ">", p + 8) > 0
                  /\ Find(s, <<"<","/","c","o","n","t","e","n","t",">">>, FindChar(s, ">", p + 8) + 1) > 0}
  IN IF opens = {} THEN [found |-> FALSE, group |-> <<>>]
     ELSE LET p == CHOOSE i \in opens : \A j \in opens : i <= j
              q == FindChar(s, ">", p + 8)
              r == Find(s, <<"<","/","c","o","n","t","e","n","t",">">>, q + 1)
          IN [found |-> TRUE, group |-> SubSeq(s, q + 1, r - 1)]

\* brace_count after the first i characters of s
BraceCount(s, i) ==
  Cardinality({j \in 1..i : s[j] = "{"}) - Cardinality({j \in 1..i : s[j] = "}"})

\* the scan for the brace matching the first one: `end`, which stays 0 when
\* brace_count never returns to 0 on a closing brace
BraceEnd(s) ==
  LET ends == {i \in 1..Len(s) : s[i] = "}" /\ BraceCount(s, i) = 0}
  IN IF ends = {} THEN 0 ELSE CHOOSE i \in ends : \A j \in ends : i <= j

\* the text between the <content> tags when there are such tags, else the
\* whole text, stripped
JsonStr(decoded_response, content_match) ==
  IF content_match.found THEN Strip(content_match.group)
  ELSE Strip(decoded_response)

\* a call without the handler of json.JSONDecodeError
ExtractedOrRaise(loaded, otherwise) ==
  IF loaded.ok THEN ExtractAll(loaded.v) ELSE XRaise

\* data = json.loads(...); return self._extract_all(data), and what the
\* handler of json.JSONDecodeError returns instead
ExtractedOr(loaded, otherwise) ==
  IF loaded.ok THEN ExtractAll(loaded.v) ELSE otherwise

\* a handler that falls back to the stripped text instead
PrefixOrStripped(json_str, end, decoded_response) ==
  IF StartsWith(json_str, <<"{">>) /\ end > 0
  THEN ExtractedOr(JsonLoads(SubSeq(json_str, 1, end)), XOk(json_str))
  ELSE XOk(json_str)

\* the handler of the first json.JSONDecodeError: the prefix up to the brace
\* that matches the first one is parsed, and the decoded text is the result
\* when there is no such prefix or it is no JSON either
PrefixOr(json_str, end, decoded_response) ==
  IF StartsWith(json_str, <<"{">>) /\ end > 0
  THEN ExtractedOr(JsonLoads(SubSeq(json_str, 1, end)), XOk(decoded_response))
  ELSE XOk(decoded_response)

ExtractJsonStr(json_str, decoded_response) ==
  ExtractedOr(JsonLoads(json_str),
              PrefixOr(json_str, BraceEnd(json_str), decoded_response))

ExtractDecoded(decoded_response) ==
  ExtractJsonStr(JsonStr(decoded_response, ContentMatch(decoded_response)),
                 decoded_response)

\* extract_readable_content
ExtractReadableContent(response) ==
  IF response = <<>> THEN XOk(<<>>) ELSE ExtractDecoded(HtmlUnescape(response))

(***************************************************************************)
(* The keyword miner (_extract_generic_data of PDFService and of           *)
(* WordService, which compile the same six expressions).  re.findall is    *)
(* computed on the characters: every pattern is matched case-insensitively *)
(* at each position, leftmost match first.  A mined number is              *)
(* [float, n, frac]: int("12") is [FALSE, 12, <<>>] and float("38.10") is  *)
(* [TRUE, 38, <<"1">>].                                                    *)
(***************************************************************************)
NoMatch == [hit |-> FALSE, float |-> FALSE, n |-> 0, frac |-> <<>>]
IntMatch(digits) ==
  [hit |-> TRUE, float |-> FALSE, n |-> StrToInt(digits), frac |-> <<>>]

\* the digits of a fraction without its trailing zeros
RECURSIVE TrimZeros(_)
TrimZeros(d) ==
  IF d # <<>> /\ d[Len(d)] = "0" THEN TrimZeros(SubSeq(d, 1, Len(d) - 1)) ELSE d

FloatMatch(digits, frac) ==
  [hit |-> TRUE, float |-> TRUE, n |-> StrToInt(digits), frac |-> TrimZeros(frac)]

\* the keyword at position i as a word of its own: at the start of the text
\* or after whitespace, in the case it is written in
KwAtWord(text, i, kw) ==
  /\ i >= 1
  /\ i + Len(kw) - 1 <= Len(text)
  /\ \A k \in 1..Len(kw) : text[i + k - 1] = kw[k]
  /\ i = 1 \/ IsWs(text[i - 1])

\* re.escape(keyword) at position i, under re.IGNORECASE
KwAt(text, i, kw) ==
  /\ i >= 1
  /\ i + Len(kw) - 1 <= Len(text)
  /\ \A k \in 1..Len(kw) : LowerChar(text[i + k - 1]) = LowerChar(kw[k])

\* \s* from position i: the position after the whitespace
RECURSIVE SkipSpace(_, _)
SkipSpace(text, i) ==
  IF i <= Len(text) /\ IsWs(text[i]) THEN SkipSpace(text, i + 1) ELSE i

\* (\d+) from position i: the position after the digits (i when there is none)
DigitRunEnd(text, i) == DigitsEnd(text, i)

IsDigitAt(text, i) == i >= 1 /\ i <= Len(text) /\ IsDigit(text[i])

CharAt(text, i, set) == i >= 1 /\ i <= Len(text) /\ text[i] \in set

Leftmost(S) == CHOOSE i \in S : \A j \in S : i <= j

\* U+2013, the third separator of pattern 1, as one character
EnDash == "U+2013"

\* [-*]?\s*KEYWORD\s*[:\-]\s*(\d+), the keyword at position q: the start of the
\* digits, or 0.  The optional marker before the keyword moves the start of a
\* match, never the keyword it goes with.
P1At(text, kw, q) ==
  LET sep == SkipSpace(text, q + Len(kw))
      d == SkipSpace(text, sep + 1)
  IN IF KwAt(text, q, kw) /\ CharAt(text, sep, {":", "-", EnDash}) /\ IsDigitAt(text, d)
     THEN d ELSE 0

\* pattern 1, first match
Pattern1(text, kw) ==
  LET at == {q \in 1..Len(text) : P1At(text, kw, q) > 0}
  IN IF at = {} THEN NoMatch
     ELSE LET d == P1At(text, kw, Leftmost(at))
          IN IntMatch(SubSeq(text, d, DigitRunEnd(text, d) - 1))

\* (\d+)\s+KEYWORD with the digits starting at position d
P2At(text, kw, d) ==
  LET e == DigitRunEnd(text, d)
      k == SkipSpace(text, e)
  IN IsDigitAt(text, d) /\ k > e /\ KwAt(text, k, kw)

\* pattern 2, first match
Pattern2(text, kw) ==
  LET at == {d \in 1..Len(text) : P2At(text, kw, d)}
  IN IF at = {} THEN NoMatch
     ELSE LET d == Leftmost(at)
          IN IntMatch(SubSeq(text, d, DigitRunEnd(text, d) - 1))

\* KEYWORD\s*[\(\[]\s*(\d+)\s*[\)\]] at position q: the start of the digits, or 0
P3At(text, kw, q) ==
  LET open == SkipSpace(text, q + Len(kw))
      d == SkipSpace(text, open + 1)
      close == SkipSpace(text, DigitRunEnd(text, d))
  IN IF /\ KwAt(text, q, kw) /\ CharAt(text, open, {"(", "["})
        /\ IsDigitAt(text, d) /\ CharAt(text, close, {")", "]"})
     THEN d ELSE 0

\* pattern 3, first match
Pattern3(text, kw) ==
  LET at == {q \in 1..Len(text) : P3At(text, kw, q) > 0}
  IN IF at = {} THEN NoMatch
     ELSE LET d == P3At(text, kw, Leftmost(at))
          IN IntMatch(SubSeq(text, d, DigitRunEnd(text, d) - 1))

\* \|\s*KEYWORD\s*\|[^|]*?(\d+)\s*\| at position p: [d, e, end], the digits
\* being text[d..e-1] and end the closing pipe; d = 0 when there is no match.
\* The lazy [^|]*? stops at the first digit from which digits and then
\* whitespace reach the next pipe: the digit run that ends the cell.
P4At(text, kw, p) ==
  LET k == SkipSpace(text, p + 1)
      bar == SkipSpace(text, k + Len(kw))
      close == FindChar(text, "|", bar + 1)
      starts == {d \in (bar + 1)..(close - 1) :
                   /\ IsDigitAt(text, d)
                   /\ SkipSpace(text, DigitRunEnd(text, d)) = close}
  IN IF /\ CharAt(text, p, {"|"}) /\ KwAt(text, k, kw) /\ CharAt(text, bar, {"|"})
        /\ close > 0 /\ starts # {}
     THEN [d |-> Leftmost(starts), e |-> DigitRunEnd(text, Leftmost(starts)),
           end |-> close]
     ELSE [d |-> 0, e |-> 0, end |-> 0]

\* the matches of pattern 4 from position `from` on, none overlapping another:
\* the digits of each, in order
RECURSIVE P4Matches(_, _, _)
P4Matches(text, kw, from) ==
  LET at == {p \in from..Len(text) : P4At(text, kw, p).d > 0}
  IN IF at = {} THEN <<>>
     ELSE LET m == P4At(text, kw, Leftmost(at))
          IN <<SubSeq(text, m.d, m.e - 1)>> \o P4Matches(text, kw, m.end + 1)

\* pattern 4, last match
Pattern4(text, kw) ==
  LET matches == P4Matches(text, kw, 1)
  IN IF matches = <<>> THEN NoMatch ELSE IntMatch(matches[Len(matches)])

\* the first digit at or after position i, or 0
FirstDigit(text, i) ==
  LET ds == {d \in i..Len(text) : IsDigit(text[d])}
  IN IF ds = {} THEN 0 ELSE Leftmost(ds)

\* (?:\s*$|\s*\n) at position e under re.MULTILINE: whitespace up to the end of
\* the text or up to a newline
LineEndAt(text, e) ==
  LET w == SkipSpace(text, e)
  IN w > Len(text) \/ \E i \in e..(w - 1) : text[i] = "\n"

\* KEYWORD[^\d]*?(\d+)(?:\s*$|\s*\n) at position q: the start of the digits, or 0
P5At(text, kw, q) ==
  LET d == FirstDigit(text, q + Len(kw))
  IN IF KwAt(text, q, kw) /\ d > 0 /\ LineEndAt(text, DigitRunEnd(text, d))
     THEN d ELSE 0

\* pattern 5, first match
Pattern5(text, kw) ==
  LET at == {q \in 1..Len(text) : P5At(text, kw, q) > 0}
  IN IF at = {} THEN NoMatch
     ELSE LET d == P5At(text, kw, Leftmost(at))
          IN IntMatch(SubSeq(text, d, DigitRunEnd(text, d) - 1))

\* the position after (\d+(?:\.\d+)?) starting at d
DecimalEnd(text, d) ==
  LET e == DigitRunEnd(text, d)
  IN IF CharAt(text, e, {"."}) /\ IsDigitAt(text, e + 1)
     THEN DigitRunEnd(text, e + 1) ELSE e

\* KEYWORD\s*(\d+(?:\.\d+)?)\s*% at position q: the start of the number, or 0
P6At(text, kw, q) ==
  LET d == SkipSpace(text, q + Len(kw))
  IN IF /\ KwAt(text, q, kw) /\ IsDigitAt(text, d)
        /\ CharAt(text, SkipSpace(text, DecimalEnd(text, d)), {"%"})
     THEN d ELSE 0

\* pattern 6, first match, as a float
Pattern6(text, kw) ==
  LET at == {q \in 1..Len(text) : P6At(text, kw, q) > 0}
  IN IF at = {} THEN NoMatch
     ELSE LET d == P6At(text, kw, Leftmost(at))
              e == DigitRunEnd(text, d)
          IN FloatMatch(SubSeq(text, d, e - 1),
                        SubSeq(text, e + 1, DecimalEnd(text, d) - 1))

\* pattern number k of the cascade
PatternN(k, text, kw) ==
  CASE k = 1 -> Pattern1(text, kw) [] k = 2 -> Pattern2(text, kw)
    [] k = 3 -> Pattern3(text, kw) [] k = 4 -> Pattern4(text, kw)
    [] k = 5 -> Pattern5(text, kw) [] k = 6 -> Pattern6(text, kw)

\* the value the cascade assigns to one keyword: the first pattern that matches
\* decides, and the loop moves on to the next keyword
OrElse(m, later) == IF m.hit THEN m ELSE later

\* the cascade with the percentage pattern first and the others after it
MineKeywordReversed(text, kw) ==
  OrElse(Pattern6(text, kw),
    OrElse(Pattern5(text, kw),
      OrElse(Pattern4(text, kw),
        OrElse(Pattern3(text, kw),
          OrElse(Pattern2(text, kw), Pattern1(text, kw))))))

MineKeyword(text, kw) ==
  OrElse(Pattern1(text, kw),
    OrElse(Pattern2(text, kw),
      OrElse(Pattern3(text, kw),
        OrElse(Pattern4(text, kw),
          OrElse(Pattern5(text, kw), Pattern6(text, kw))))))

\* data[keyword] = value on a dict kept as [keys, vals] in insertion order
DataSet(data, kw, m) ==
  IF \E i \in 1..Len(data.keys) : data.keys[i] = kw
  THEN [keys |-> data.keys,
        vals |-> [data.vals EXCEPT
                    ![CHOOSE i \in 1..Len(data.keys) : data.keys[i] = kw] = m]]
  ELSE [keys |-> Append(data.keys, kw), vals |-> Append(data.vals, m)]

EmptyData == [keys |-> <<>>, vals |-> <<>>]

Number(m) == [float |-> m.float, n |-> m.n, frac |-> m.frac]

\* an assignment made whether or not a pattern matched
MinedOrZero(data, kw, m) == DataSet(data, kw, Number(m))

\* if matches: data[keyword] = ...
Mined(data, kw, m) == IF m.hit THEN DataSet(data, kw, Number(m)) ELSE data

\* the loop of _extract_generic_data over the keywords left
RECURSIVE MineFrom(_, _, _)
MineFrom(content, keywords, data) ==
  IF keywords = <<>> THEN data
  ELSE MineFrom(content, Tail(keywords),
                Mined(data, keywords[1], MineKeyword(content, keywords[1])))

\* _extract_generic_data
ExtractGenericData(content, keywords) == MineFrom(content, keywords, EmptyData)

TypeKeywords ==
  <<<<"I","m","p","r","o","v","e","m","e","n","t">>, <<"B","u","g">>, <<"C","h","a","n","g","e"," ","R","e","q","u","e","s","t">>, <<"T","a","s","k">>, <<"F","e","a","t","u","r","e">>,
    <<"E","p","i","c">>, <<"S","t","o","r","y">>, <<"S","u","b","-","t","a","s","k">>>>
StatusKeywords ==
  <<<<"O","p","e","n">>, <<"I","n"," ","P","r","o","g","r","e","s","s">>, <<"C","l","o","s","e","d">>, <<"R","e","o","p","e","n","e","d">>, <<"R","e","s","o","l","v","e","d">>,
    <<"D","o","n","e">>, <<"T","o"," ","D","o">>, <<"B","l","o","c","k","e","d">>, <<"I","n"," ","R","e","v","i","e","w">>>>
PriorityKeywords ==
  <<<<"C","r","i","t","i","c","a","l">>, <<"H","i","g","h">>, <<"M","e","d","i","u","m">>, <<"L","o","w">>, <<"B","l","o","c","k","e","r">>, <<"M","a","j","o","r">>,
    <<"M","i","n","o","r">>, <<"T","r","i","v","i","a","l">>>>

\* one entry of the list _extract_all_chart_data returns
Chart(type, data, title) ==
  [type |-> type, labels |-> data.keys, values |-> data.vals, title |-> title]

\* an append made whether or not the category has data
WithChartAlways(charts, type, data, title) ==
  Append(charts, Chart(type, data, title))

\* if data: charts.append({...})
WithChart(charts, type, data, title) ==
  IF data.keys # <<>> THEN Append(charts, Chart(type, data, title)) ELSE charts

(***************************************************************************)
(* The Word report (WordService).  The document is the sequence of block   *)
(* nodes python-docx is asked to add; a node is                            *)
(* [kind, level, style, runs, rows] and a run is [text, style].  The       *)
(* images themselves and the time of day come from outside the program:    *)
(* a picture node keeps the chart it was asked to draw, and the clock's    *)
(* text is the one character Now.                                          *)
(***************************************************************************)
Now == "<now>"
\* U+2022, the third bullet marker, as one character
Bullet == "U+2022"

Run(text, style) == [text |-> text, style |-> style]

\* add_run(text) on a new paragraph; python-docx adds no run for no text
PlainRuns(text) == IF text = <<>> THEN <<>> ELSE <<Run(text, "")>>

Heading(text, level) ==
  [kind |-> "heading", level |-> level, style |-> "", runs |-> PlainRuns(text),
   rows |-> <<>>]
Paragraph(runs, style) ==
  [kind |-> "paragraph", level |-> 0, style |-> style, runs |-> runs,
   rows |-> <<>>]
Table(rows) ==
  [kind |-> "table", level |-> 0, style |-> "Table Grid", runs |-> <<>>,
   rows |-> rows]
Picture(chart_info) ==
  [kind |-> "picture", level |-> 0, style |-> chart_info.type,
   runs |-> PlainRuns(chart_info.title), rows |-> <<chart_info.labels>>]

\* U+0060, the backtick, as one character
Tick == "U+0060"

IsMarker(c) == c \in {"*", Tick}

\* the first position j >= from where p starts, or 0
NextAt(text, p, from) == Find(text, p, from)

\* one match of the inline pattern at position i, its alternatives in order:
\* two stars, text, two stars; a star, text, a star; a backtick, text, a
\* backtick (the text as short as can be); characters that are no marker.
\* [end, run], end = 0 when nothing matches at i
FormatMatch(text, i) ==
  LET two == NextAt(text, <<"*","*">>, i + 3)
      star == NextAt(text, <<"*">>, i + 2)
      tick == NextAt(text, <<Tick>>, i + 2)
      plain == {j \in i..Len(text) : \A k \in i..j : ~IsMarker(text[k])}
      last == CHOOSE j \in plain : \A k \in plain : k <= j
  IN IF StartsWithAt(text, i, <<"*","*">>) /\ two > 0
     THEN [end |-> two + 1, run |-> Run(SubSeq(text, i + 2, two - 1), "bold")]
     ELSE IF text[i] = "*" /\ star > 0
     THEN \* "***" starts and ends with "**": bold, of group 2, which is None
          IF SubSeq(text, i, star) = <<"*","*","*">>
          THEN [end |-> star, run |-> Run(<<>>, "bold")]
          ELSE [end |-> star, run |-> Run(SubSeq(text, i + 1, star - 1), "italic")]
     ELSE IF text[i] = Tick /\ tick > 0
     THEN [end |-> tick, run |-> Run(SubSeq(text, i + 1, tick - 1), "code")]
     ELSE IF plain # {}
     THEN [end |-> last, run |-> Run(SubSeq(text, i, last), "")]
     ELSE [end |-> 0, run |-> Run(<<>>, "")]

\* _add_formatted_text: the runs re.finditer yields from position i on
RECURSIVE FormattedRuns(_, _)
FormattedRuns(text, i) ==
  IF i > Len(text) THEN <<>>
  ELSE LET m == FormatMatch(text, i)
       IN IF m.end = 0 THEN FormattedRuns(text, i + 1)
          ELSE <<m.run>> \o FormattedRuns(text, m.end + 1)

AddFormattedText(text) == FormattedRuns(text, 1)

\* _add_formatted_paragraph
AddFormattedParagraph(doc, text) == Append(doc, Paragraph(AddFormattedText(text), ""))

\* a flush that drops the items
FlushNothing(doc, items) == doc

\* _flush_list: one "List Bullet" paragraph for each item
FlushList(doc, items) ==
  doc \o [i \in 1..Len(items) |-> Paragraph(AddFormattedText(items[i]), "List Bullet")]

\* max(len(row) for row in rows)
NumCols(rows) ==
  CHOOSE n \in {Len(rows[i]) : i \in 1..Len(rows)} :
    \A i \in 1..Len(rows) : Len(rows[i]) <= n

\* the texts of the cells of the rows x num_cols grid doc.add_table makes, after
\* cell.text = cell_text for the cells a row has
GridRows(rows) ==
  [i \in 1..Len(rows) |->
     [j \in 1..NumCols(rows) |-> IF j <= Len(rows[i]) THEN rows[i][j] ELSE <<>>]]

\* _add_table: nothing for no row, else the table and an empty paragraph
AddTable(doc, rows) ==
  IF rows = <<>> THEN doc
  ELSE doc \o <<Table(GridRows(rows)), Paragraph(<<>>, "")>>

\* "|" in line and line.strip().startswith("|")
IsTableLine(line) ==
  IF "|" \in {line[i] : i \in 1..Len(line)}
  THEN StartsWith(Strip(line), <<"|">>) ELSE FALSE

\* re.match(r"^\s*\|[\s\-:|]+\|\s*$", line)
IsSeparator(line) ==
  LET s == Strip(line)
  IN /\ Len(s) >= 3
     /\ s[1] = "|"
     /\ s[Len(s)] = "|"
     /\ \A i \in 2..(Len(s) - 1) : IsWs(s[i]) \/ s[i] \in {"-", ":", "|"}

\* [cell.strip() for cell in line.split("|")[1:-1]]
Cells(line) ==
  LET pieces == Split(line, "|")
  IN [i \in 1..(Len(pieces) - 2) |-> Strip(pieces[i + 1])]

\* a table line that becomes a row whatever it holds
WithRowAlways(rows, line) == Append(rows, Cells(line))

\* the rows after a table line: a separator line and a line without cells add
\* nothing
WithRow(rows, line) ==
  IF ~IsSeparator(line) /\ Cells(line) # <<>> THEN Append(rows, Cells(line))
  ELSE rows

\* a level that counts every heading line as a title
HeadingLevelFlat(line) ==
  IF StartsWith(line, <<"#","#","#"," ">>) \/ StartsWith(line, <<"#","#"," ">>)
     \/ StartsWith(line, <<"#"," ">>)
  THEN 1 ELSE 0

\* the level of a heading line, 0 for any other line
HeadingLevel(line) ==
  IF StartsWith(line, <<"#","#","#"," ">>) THEN 3
  ELSE IF StartsWith(line, <<"#","#"," ">>) THEN 2
  ELSE IF StartsWith(line, <<"#"," ">>) THEN 1
  ELSE 0

\* line.strip().startswith(("- ", "* ", "\u2022 "))
IsBullet(line) ==
  IF Len(Strip(line)) >= 2
  THEN SubSeq(Strip(line), 1, 2) \in {<<"-"," ">>, <<"*"," ">>, <<Bullet, " ">>}
  ELSE FALSE

\* re.match(r"^\d+\.\s", line.strip()): the position after the whitespace, or 0
NumberedEnd(line) ==
  LET s == Strip(line)
      e == DigitsEnd(s, 1)
  IN IF e > 1 /\ e + 1 <= Len(s) /\ s[e] = "." /\ IsWs(s[e + 1]) THEN e + 2 ELSE 0

\* group 1 of re.match(r"^\d+\.\s(.+)", line.strip()), <<>> when there is no match
NumberedItem(line) ==
  IF NumberedEnd(line) = 0 \/ NumberedEnd(line) > Len(Strip(line)) THEN <<>>
  ELSE Drop(Strip(line), NumberedEnd(line) - 1)

\* the first nodes of every report: title, date, source and an empty paragraph
Preamble(filename) ==
  <<Heading(<<"A","n","a","l","y","s","i","s"," ","R","e","p","o","r","t">>, 0),
    Paragraph(<<Run(<<"G","e","n","e","r","a","t","e","d"," ","o","n"," ">> \o <<Now>>, "italic")>>, "")>>
  \o (IF filename # <<>>
      THEN <<Paragraph(<<Run(<<"S","o","u","r","c","e",":"," ">> \o filename, "italic")>>, "")>>
      ELSE <<>>)
  \o <<Paragraph(<<>>, "")>>

\* _add_chart_image, the image drawn: an empty paragraph, the picture and its
\* caption
ChartNodes(chart_info) ==
  <<Paragraph(<<>>, ""), Picture(chart_info),
    Paragraph(<<Run(chart_info.title, "italic")>>, "")>>

RECURSIVE AddChartImages(_, _)
AddChartImages(doc, charts) ==
  IF charts = <<>> THEN doc
  ELSE AddChartImages(doc \o ChartNodes(charts[1]), Tail(charts))

(***************************************************************************)
(* PDFService.  The story is a sequence of flowables of the shape of the   *)
(* nodes of the Word document: a paragraph holds its markup as one run,    *)
(* a spacer its height as level.                                           *)
(***************************************************************************)
Flowable(markup, style) == Paragraph(<<Run(markup, "markup")>>, style)

Spacer(height) ==
  [kind |-> "spacer", level |-> height, style |-> "", runs |-> <<>>,
   rows |-> <<>>]

\* str.replace(old, new)
RECURSIVE Replace(_, _, _)
Replace(s, old, new) ==
  IF Find(s, old, 1) = 0 THEN s
  ELSE SubSeq(s, 1, Find(s, old, 1) - 1) \o new
       \o Replace(Drop(s, Find(s, old, 1) + Len(old) - 1), old, new)

\* _clean_text: the three characters escaped, the b and i tags restored
CleanText(text) ==
  Replace(Replace(Replace(Replace(
    Replace(Replace(Replace(text, <<"&">>, <<"&","a","m","p",";">>), <<"<">>, <<"&","l","t",";">>),
            <<">">>, <<"&","g","t",";">>),
    <<"&","l","t",";","b","&","g","t",";">>, <<"<","b",">">>), <<"&","l","t",";","/","b","&","g","t",";">>, <<"<","/","b",">">>),
    <<"&","l","t",";","i","&","g","t",";">>, <<"<","i",">">>), <<"&","l","t",";","/","i","&","g","t",";">>, <<"<","/","i",">">>)

\* re.sub of mark(.+?)mark by <tag>\1</tag>: the leftmost mark that has a
\* closing mark at least one character later, the nearest such closing mark,
\* and on with the rest of the text
RECURSIVE Tagged(_, _, _)
Tagged(text, mark, tag) ==
  LET opens == {i \in 1..Len(text) :
                  /\ StartsWithAt(text, i, mark)
                  /\ Find(text, mark, i + Len(mark) + 1) > 0}
  IN IF opens = {} THEN text
     ELSE SubSeq(text, 1, Leftmost(opens) - 1)
          \o <<"<">> \o tag \o <<">">>
          \o SubSeq(text, Leftmost(opens) + Len(mark),
                    Find(text, mark, Leftmost(opens) + Len(mark) + 1) - 1)
          \o <<"<","/">> \o tag \o <<">">>
          \o Tagged(Drop(text, Find(text, mark, Leftmost(opens) + Len(mark) + 1)
                               + Len(mark) - 1),
                    mark, tag)

\* the two substitutions of a body line and of a list item
Marked(text) == Tagged(Tagged(text, <<"*","*">>, <<"b">>), <<"*">>, <<"i">>)

\* _add_list_to_story: one body paragraph for each item, after a bullet
AddListToStory(story, items) ==
  story \o [i \in 1..Len(items) |->
              Flowable(<<Bullet, " ">> \o Marked(items[i]), "CustomBody")]

PdfState(story, list) == [story |-> story, current_list |-> list]

\* the body of the loop of _add_formatted_text for one line
AfterPdfLine(st, line) ==
  IF Strip(line) = <<>>
  THEN PdfState(AddListToStory(st.story, st.current_list), <<>>)
  ELSE IF StartsWith(Strip(line), <<"|">>) THEN st
  ELSE IF StartsWith(line, <<"#","#","#"," ">>)
  THEN PdfState(AddListToStory(st.story, st.current_list)
                \o <<Spacer(10),
                     Flowable(<<"<","b",">">> \o CleanText(Strip(Drop(line, 4)))
                              \o <<"<","/","b",">">>, "CustomBody")>>,
                <<>>)
  ELSE IF StartsWith(line, <<"#","#"," ">>)
  THEN PdfState(Append(AddListToStory(st.story, st.current_list),
                       Flowable(CleanText(Strip(Drop(line, 3))),
                                "SectionHeader")),
                <<>>)
  ELSE IF IsBullet(line)
  THEN PdfState(st.story,
                Append(st.current_list, CleanText(Drop(Strip(line), 2))))
  ELSE IF NumberedEnd(line) > 0
  THEN PdfState(st.story,
                IF NumberedItem(line) # <<>>
                THEN Append(st.current_list, CleanText(NumberedItem(line)))
                ELSE st.current_list)
  ELSE PdfState(Append(AddListToStory(st.story, st.current_list),
                       Flowable(Marked(CleanText(line)), "CustomBody")),
                <<>>)

RECURSIVE AfterPdfLines(_, _, _)
AfterPdfLines(st, lines, i) ==
  IF i > Len(lines) THEN st
  ELSE AfterPdfLines(AfterPdfLine(st, lines[i]), lines, i + 1)

\* _add_formatted_text(story, text): the loop over text.split('\n'), then
\* the list that is left
PdfAddFormattedText(story, text) ==
  AddListToStory(AfterPdfLines(PdfState(story, <<>>), Split(text, "\n"), 1).story,
                 AfterPdfLines(PdfState(story, <<>>), Split(text, "\n"), 1).current_list)

\* the cascade of PDFService._extract_generic_data for one keyword, with the
\* percentage taken as an integer
PdfMineKeywordInt(text, kw) ==
  OrElse(Pattern1(text, kw),
    OrElse(Pattern2(text, kw),
      OrElse(Pattern3(text, kw),
        OrElse(Pattern4(text, kw),
          OrElse(Pattern5(text, kw),
                 [Pattern6(text, kw) EXCEPT !.float = FALSE, !.frac = <<>>])))))

\* the cascade of PDFService._extract_generic_data for one keyword
PdfMineKeyword(text, kw) ==
  OrElse(Pattern1(text, kw),
    OrElse(Pattern2(text, kw),
      OrElse(Pattern3(text, kw),
        OrElse(Pattern4(text, kw),
          OrElse(Pattern5(text, kw), Pattern6(text, kw))))))

RECURSIVE PdfMineFrom(_, _, _)
PdfMineFrom(content, keywords, data) ==
  IF keywords = <<>> THEN data
  ELSE PdfMineFrom(content, Tail(keywords),
                   Mined(data, keywords[1], PdfMineKeyword(content, keywords[1])))

\* PDFService._extract_generic_data
PdfExtractGenericData(content, keywords) ==
  PdfMineFrom(content, keywords, EmptyData)

\* PDFService._extract_all_chart_data
PdfExtractAllChartData(content) ==
  WithChart(
    WithChart(
      WithChart(<<>>, "bar", PdfExtractGenericData(content, TypeKeywords),
                <<"I","s","s","u","e","s"," ","b","y"," ","T","y","p","e">>),
      "pie", PdfExtractGenericData(content, StatusKeywords),
      <<"I","s","s","u","e","s"," ","b","y"," ","S","t","a","t","u","s">>),
    "bar_horizontal", PdfExtractGenericData(content, PriorityKeywords),
    <<"I","s","s","u","e","s"," ","b","y"," ","P","r","i","o","r","i","t","y">>)

(***************************************************************************)
(* The export of a session (routes.py).  A history entry is                *)
(* [role, content]; its timestamp is never read.  None and "" are both the *)
(* empty sequence: the code only tests them for truth.                     *)
(***************************************************************************)
None == <<>>

Entry(role, content) == [role |-> role, content |-> content]

\* the formatted part of one history entry: [raised, text]
FormattedPart(entry) ==
  IF entry.role = "user"
  THEN XOk(<<"#","#"," ","Q","u","e","s","t","i","o","n","\n">> \o entry.content \o <<"\n">>)
  ELSE LET readable_content == ExtractReadableContent(entry.content)
       IN IF readable_content.raised THEN XRaise
          ELSE XOk(<<"#","#"," ","A","n","a","l","y","s","i","s","\n">> \o readable_content.text \o <<"\n">>)

\* the sections joined by a blank line, without the rule
JoinSectionsBlank(formatted_parts) ==
  IF \E i \in 1..Len(formatted_parts) : formatted_parts[i].raised THEN XRaise
  ELSE XOk(Join([i \in 1..Len(formatted_parts) |-> formatted_parts[i].text],
                <<"\n","\n">>))

\* format_conversation_for_export: [raised, text]
\* "\n---\n\n".join(formatted_parts)
JoinSections(formatted_parts) ==
  IF \E i \in 1..Len(formatted_parts) : formatted_parts[i].raised THEN XRaise
  ELSE XOk(Join([i \in 1..Len(formatted_parts) |-> formatted_parts[i].text],
                <<"\n","-","-","-","\n","\n">>))

\* extract_readable_content(last_response) if last_response, else ""
LastResponseText(response) ==
  IF response # None THEN ExtractReadableContent(response) ELSE XOk(<<>>)

\* format_conversation_for_export: [raised, text]
FormatConversationForExport(history, response) ==
  IF history = <<>> THEN LastResponseText(response)
  ELSE JoinSections([i \in 1..Len(history) |-> FormattedPart(history[i])])

\* if not analysis_text: the last response once more, then the placeholder
OrFallback(formatted, response) ==
  IF formatted.raised \/ formatted.text # <<>> THEN formatted
  ELSE LastResponseText(response)

OrPlaceholder(text) ==
  IF text.raised THEN XRaise
  ELSE IF text.text = <<>> THEN XOk(<<"N","o"," ","a","n","a","l","y","s","i","s"," ","a","v","a","i","l","a","b","l","e",".">>)
  ELSE text

\* the analysis_text export_docx hands to generate_report: [raised, text]
AnalysisText(given, history, response) ==
  OrPlaceholder(OrFallback(IF given # None THEN XOk(given)
                           ELSE FormatConversationForExport(history, response),
                           response))

(***************************************************************************)
(* State.  call is the entry point of the run; pc the position in it.      *)
(***************************************************************************)
VARIABLES
  call, pc,
  data_loaded, conversation_history, last_response,
  analysis_text, filename, include_charts, keywords,
  content, lines, idx, current_list, in_table, table_rows, doc,
  type_data, status_data, priority_data, charts, data,
  other,
  document_service, chat_sessions, chats

session ==
  <<data_loaded, conversation_history, last_response, document_service,
    chat_sessions, chats>>
request == <<call, analysis_text, filename, include_charts, keywords>>
parser == <<lines, idx, current_list, in_table, table_rows>>
mining == <<type_data, status_data, priority_data, charts>>
vars == <<pc, session, request, content, parser, doc, mining, data, other>>

\* other is the second request in progress, if any: what that request holds
\* in its own objects and local variables while the first one is running
NoRequest == [pc |-> "none"]

(***************************************************************************)
(* Inputs                                                                  *)
(***************************************************************************)
MaxItems == 2
MaxLines == 3
MaxFrags == 2
MaxChats == 2

\* every sequence of at most n elements of S
SeqsUpTo(S, n) == UNION {[1..k -> S] : k \in 0..n}

HeaderInput == <<"{","\"","c","o","m","p","o","n","e","n","t","\"",":","\"","h","e","a","d","e","r","\"",",","\"","p","r","o","p","s","\"",":","{","\"","t","i","t","l","e","\"",":","\"","S","u","m","m","a","r","y","\"","}","}">>
TextInput == <<"{","\"","c","o","m","p","o","n","e","n","t","\"",":","\"","t","e","x","t","\"",",","\"","p","r","o","p","s","\"",":","{","\"","t","e","x","t","\"",":","\"","B","u","g",":"," ","1","2","\"","}","}">>
NumberedInput == <<"{","\"","c","o","m","p","o","n","e","n","t","\"",":","\"","t","e","x","t","\"",",","\"","p","r","o","p","s","\"",":","{","\"","t","e","x","t","\"",":","\"","1","."," ","C","l","o","s","e","d"," ","3","\"","}","}">>
ListInput == <<"{","\"","c","o","m","p","o","n","e","n","t","\"",":","\"","l","i","s","t","\"",",","\"","p","r","o","p","s","\"",":","{","\"","i","t","e","m","s","\"",":","[","\"","O","p","e","n"," ","4","\"",",","\"","H","i","g","h","\"","]","}","}">>
TableInput ==
  <<"{","\"","c","o","m","p","o","n","e","n","t","\"",":","\"","t","a","b","l","e","\"",",","\"","p","r","o","p","s","\"",":","{","\"","t","a","b","l","e","H","e","a","d","e","r","\"",":","{","\"","r","o","w","s","\"",":","[","\"","T","y","p","e","\"",",","\"","C","o","u","n","t","\"","]","}",",">>
  \o <<"\"","t","a","b","l","e","B","o","d","y","\"",":","{","\"","r","o","w","s","\"",":","[","[","\"","T","a","s","k","\"",",","5","]","]","}","}","}">>
BraceInput == <<"{","\"","c","o","m","p","o","n","e","n","t","\"",":","\"","t","e","x","t","\"",",","\"","p","r","o","p","s","\"",":","{","\"","t","e","x","t","\"",":","\"","x","}","\"","}","}">>
NullPropsInput == <<"{","\"","c","o","m","p","o","n","e","n","t","\"",":","\"","h","e","a","d","e","r","\"",",","\"","p","r","o","p","s","\"",":","n","u","l","l","}">>

Components ==
  {HeaderInput, TextInput, NumberedInput, ListInput, TableInput, BraceInput,
   NullPropsInput}

\* the JSON text of a list of components
JsonArray(items) == <<"[">> \o Join(items, <<",">>) \o <<"]">>

\* the JSON text of a card holding the components as its children
CardOf(items) ==
  <<"{","\"","c","o","m","p","o","n","e","n","t","\"",":","\"","c","a","r","d","\"",",","\"","p","r","o","p","s","\"",":","{","\"","c","h","i","l","d","r","e","n","\"",":">> \o JsonArray(items) \o <<"}","}">>

\* a JSON object J followed by text T that is no JSON
TrailingCases ==
  {[j |-> HeaderInput, t |-> <<" ","t","r","a","i","l","i","n","g">>],
   [j |-> TextInput, t |-> <<"\n","s","e","e"," ","a","b","o","v","e">>],
   [j |-> BraceInput, t |-> <<" ","t","r","a","i","l","i","n","g">>]}

ProseInputs ==
  {<<" "," ","T","o","t","a","l",":"," ","O","p","e","n"," ","3"," "," ">>, <<"R","&","a","m","p",";","D"," ","&","l","t",";","b","&","g","t",";"," ","r","e","v","i","e","w">>,
   <<"-"," ","L","o","w",":"," ","1","\n","*"," ","d","o","n","e","\n","\n","#","#","#"," ","N","o","t","e","s">>, <<"s","e","e"," ","{","t","h","i","s">>, <<"{","t","h","i","s","}"," ","i","s"," ","i","t">>}

EnvelopeInputs ==
  {<<"<","c","o","n","t","e","n","t"," ","t","h","e","s","y","s","=","\"","t","r","u","e","\"",">">> \o HeaderInput \o <<"<","/","c","o","n","t","e","n","t",">">>,
   <<"&","l","t",";","c","o","n","t","e","n","t","&","g","t",";","5","&","l","t",";","/","c","o","n","t","e","n","t","&","g","t",";">>}

\* a card whose first and last child have the same text
RepeatedInput == CardOf(<<TextInput, HeaderInput, TextInput>>)

Responses ==
  Components
  \cup {JsonArray(s) : s \in SeqsUpTo(Components, MaxItems)}
  \cup {CardOf(s) : s \in SeqsUpTo(Components, MaxItems)}
  \cup {RepeatedInput}
  \cup {c.j \o c.t : c \in TrailingCases}
  \cup ProseInputs \cup EnvelopeInputs \cup {None}

Prompt == <<"H","o","w"," ","m","a","n","y"," ","b","u","g","s","?">>

\* the histories a session can hold with this last response: none (a
\* document was uploaded after the chat), or the one chat turn
Histories(response) ==
  IF response = None THEN {<<>>, <<Entry("user", Prompt)>>}
  ELSE {<<>>, <<Entry("user", Prompt), Entry("assistant", response)>>}

GivenTexts == {None, <<"C","l","o","s","e","d",":"," ","2","\n","-"," ","a">>}

SourceName == <<"i","s","s","u","e","s",".","x","l","s","x">>

LineSet ==
  {<<"|"," ","A"," ","|"," ","B"," ","|">>, <<"|","-","-","-","|","-","-","-","|">>, <<"|"," ","1"," ","|"," ","2"," ","|">>, <<"|"," ","1"," ","|">>, <<"|"," ","x">>, <<"-"," ","a">>,
   <<"*"," ","b"," ","*","*","c","*","*">>, <<"1","."," ","d">>, <<"#","#"," ","H">>, <<"#"," ","T">>, <<"#","#","#"," ","S"," ">>, <<>>, <<"t","e","x","t">>,
   <<" "," ">>}

ReportContents == {Join(s, <<"\n">>) : s \in SeqsUpTo(LineSet, MaxLines)}

MinerFragments ==
  {<<"B","u","g",":"," ","1","2">>, <<"T","a","s","k",":"," ","5">>, <<"3"," ","B","u","g">>, <<"B","u","g"," ","(","7",")">>, <<"|"," ","B","u","g"," ","|"," ","3"," ","|"," ","1","2"," ","|">>,
   <<"|"," ","b","u","g"," ","|"," ","9"," ","|">>, <<"B","u","g"," ","t","o","t","a","l"," ","8">>, <<"B","u","g"," ","3","8",".","1","0","%">>, <<"O","p","e","n"," ","-"," ","4">>,
   <<"H","i","g","h",":"," ","2">>, <<"S","u","b","-","t","a","s","k",":"," ","3">>, <<"E","p","i","c">>, <<"B","u","g",":"," ","1",","," ","O","p","e","n",":"," ","2",","," ","L","o","w",":"," ","3">>}

MinerTexts == {Join(s, <<"\n">>) : s \in SeqsUpTo(MinerFragments, MaxFrags)}

KeywordLists ==
  {<<<<"B","u","g">>, <<"T","a","s","k">>, <<"E","p","i","c">>>>, <<<<"T","a","s","k">>, <<"S","u","b","-","t","a","s","k">>>>,
   <<<<"B","u","g">>, <<"B","u","g">>>>}

(***************************************************************************)
(* Initial states: one for each entry point                                *)
(***************************************************************************)
\* DocumentService.__init__
NoDocument == [content |-> None, filename |-> None, raw_data |-> None]

\* an upload: the name of the file, its bytes, and whether the loader can
\* read them
IssuesFile == [name |-> <<"i","s","s","u","e","s",".","x","l","s","x">>, data |-> <<"P","K"," ","i","s","s","u","e","s">>, loads |-> TRUE]
BrokenFile == [name |-> <<"b","r","o","k","e","n",".","x","l","s">>, data |-> <<"P","K"," ","b","r","o","k">>, loads |-> FALSE]
NotesFile == [name |-> <<"n","o","t","e","s",".","t","x","t">>, data |-> <<"n","o","t","e","s">>, loads |-> FALSE]
Files == {IssuesFile, BrokenFile, NotesFile}

\* what the loader makes of the sheets of a file
Sheets(file) == <<"r","o","w","s"," ","o","f"," ">> \o file.name

\* the questions asked in a run, and the answer of the model to each
PromptList == <<<<"H","o","w"," ","m","a","n","y"," ","b","u","g","s","?">>, <<"W","h","i","c","h"," ","a","r","e"," ","o","p","e","n","?">>, <<"W","h","y","?">>>>
AnswerList == <<TextInput, HeaderInput, NumberedInput>>
Prompts == {PromptList[i] : i \in 1..MaxChats}
Answer(prompt) ==
  AnswerList[CHOOSE i \in 1..Len(PromptList) : PromptList[i] = prompt]

\* load_excel: the bytes and the name are stored before the loader runs
LoadExcel(service, file) ==
  IF file.loads
  THEN [success |-> TRUE,
        service |-> [content |-> Sheets(file), filename |-> file.name,
                     raw_data |-> file.data]]
  ELSE [success |-> FALSE,
        service |-> [service EXCEPT !.filename = file.name,
                                    !.raw_data = file.data]]

\* no request but the one of the run: the session holds the document it was
\* loaded with, the chat handler has no session, no chat is in progress
Settled ==
  /\ document_service = IF data_loaded
                        THEN LoadExcel(NoDocument, IssuesFile).service
                        ELSE NoDocument
  /\ chat_sessions = <<>>
  /\ chats = [p \in Prompts |-> "none"]

Idle ==
  /\ Settled
  /\ lines = <<>>
  /\ idx = 1
  /\ current_list = <<>>
  /\ in_table = FALSE
  /\ table_rows = <<>>
  /\ doc = <<>>
  /\ type_data = EmptyData
  /\ status_data = EmptyData
  /\ priority_data = EmptyData
  /\ charts = <<>>
  /\ data = EmptyData
  /\ other = NoRequest

NoSession ==
  /\ data_loaded = FALSE
  /\ last_response = None
  /\ conversation_history = <<>>
  /\ analysis_text = None

\* an export request on a session
Init ==
  /\ call = "export_docx"
  /\ pc = "export_docx"
  /\ data_loaded \in BOOLEAN
  /\ last_response \in Responses
  /\ conversation_history \in Histories(last_response)
  /\ analysis_text \in GivenTexts
  /\ filename = SourceName
  /\ include_charts = TRUE
  /\ keywords = <<>>
  /\ content = <<>>
  /\ Idle

\* generate_report(content, filename, include_charts=False)
InitReport ==
  /\ call = "generate_report"
  /\ pc = "generate_report"
  /\ NoSession
  /\ filename \in {None, SourceName}
  /\ include_charts = FALSE
  /\ keywords = <<>>
  /\ content \in ReportContents
  /\ Idle

\* _extract_generic_data(content, keywords) and _extract_all_chart_data(content)
InitMine ==
  /\ \/ call = "_extract_generic_data" /\ keywords \in KeywordLists
     \/ call = "_extract_all_chart_data" /\ keywords = <<>>
  /\ pc = call
  /\ NoSession
  /\ filename = None
  /\ include_charts = TRUE
  /\ content \in MinerTexts
  /\ Idle

\* two export requests on one session, each with its own analysis text
TwoTexts == {None, <<"C","l","o","s","e","d",":"," ","2","\n","-"," ","a">>, <<"1","."," ","d","\n","\n","|"," ","B","u","g"," ","|"," ","3"," ","|","\n","#","#"," ","H">>}

NewRequest(text) ==
  [call |-> "export_docx", pc |-> "export_docx", analysis_text |-> text,
   filename |-> SourceName, include_charts |-> TRUE, keywords |-> <<>>,
   content |-> <<>>, lines |-> <<>>, idx |-> 1, current_list |-> <<>>,
   in_table |-> FALSE, table_rows |-> <<>>, doc |-> <<>>,
   type_data |-> EmptyData, status_data |-> EmptyData,
   priority_data |-> EmptyData, charts |-> <<>>, data |-> EmptyData]

InitTwo ==
  /\ call = "export_docx"
  /\ pc = "export_docx"
  /\ data_loaded = TRUE
  /\ last_response \in {TextInput, HeaderInput}
  /\ conversation_history = <<>>
  /\ analysis_text \in TwoTexts
  /\ filename = SourceName
  /\ include_charts = TRUE
  /\ keywords = <<>>
  /\ content = <<>>
  /\ lines = <<>>
  /\ idx = 1
  /\ current_list = <<>>
  /\ in_table = FALSE
  /\ table_rows = <<>>
  /\ doc = <<>>
  /\ type_data = EmptyData
  /\ status_data = EmptyData
  /\ priority_data = EmptyData
  /\ charts = <<>>
  /\ data = EmptyData
  /\ other \in {NewRequest(text) : text \in TwoTexts}
  /\ Settled

(***************************************************************************)
(* export_docx                                                             *)
(***************************************************************************)
\* the request is refused with no data loaded, ends with the exception the
\* extractor let through, or goes on to generate_report
Exported(text) ==
  IF ~data_loaded THEN pc' = "rejected" /\ content' = content
  ELSE IF text.raised THEN pc' = "raised" /\ content' = content
  ELSE pc' = "generate_report" /\ content' = text.text

ExportDocx ==
  /\ pc = "export_docx"
  /\ Exported(AnalysisText(analysis_text, conversation_history, last_response))
  /\ UNCHANGED <<session, request, other, parser, doc, mining, data>>

(***************************************************************************)
(* WordService.generate_report and _parse_and_add_content                  *)
(***************************************************************************)
\* the document is created and the title block added; the parser starts, or
\* ends at once on no content
GenerateReport ==
  /\ pc = "generate_report"
  /\ IF content = <<>>
     THEN /\ doc' = Append(Preamble(filename),
                           Paragraph(PlainRuns(<<"N","o"," ","c","o","n","t","e","n","t"," ","a","v","a","i","l","a","b","l","e",".">>), ""))
          /\ pc' = "done"
          /\ UNCHANGED parser
     ELSE /\ doc' = Preamble(filename)
          /\ lines' = Split(content, "\n")
          /\ idx' = 1
          /\ current_list' = <<>>
          /\ in_table' = FALSE
          /\ table_rows' = <<>>
          /\ pc' = "parse"
  /\ UNCHANGED <<session, request, other, content, mining, data>>

\* the document after the `elif in_table` branch a line that is no table line
\* goes through
Closed == IF in_table THEN AddTable(doc, table_rows) ELSE doc

NextLine ==
  /\ pc = "parse"
  /\ idx <= Len(lines)
  /\ idx' = idx + 1
  /\ lines' = lines
  /\ UNCHANGED <<pc, session, request, other, content, mining, data>>

\* a line that is no table line and leaves the parser in the table state
StayInTable ==
  /\ in_table' = in_table
  /\ table_rows' = table_rows

LeaveTable ==
  /\ in_table' = FALSE
  /\ table_rows' = IF in_table THEN <<>> ELSE table_rows

TableLine ==
  /\ NextLine
  /\ IsTableLine(lines[idx])
  /\ doc' = IF in_table THEN doc ELSE FlushList(doc, current_list)
  /\ current_list' = IF in_table THEN current_list ELSE <<>>
  /\ in_table' = TRUE
  /\ table_rows' = WithRow(IF in_table THEN table_rows ELSE <<>>, lines[idx])

HeadingLine ==
  /\ NextLine
  /\ ~IsTableLine(lines[idx])
  /\ HeadingLevel(lines[idx]) > 0
  /\ LeaveTable
  /\ doc' = Append(FlushList(Closed, current_list),
                   Heading(Strip(Drop(lines[idx], HeadingLevel(lines[idx]) + 1)),
                           HeadingLevel(lines[idx])))
  /\ current_list' = <<>>

BulletLine ==
  /\ NextLine
  /\ ~IsTableLine(lines[idx])
  /\ HeadingLevel(lines[idx]) = 0
  /\ IsBullet(lines[idx])
  /\ LeaveTable
  /\ doc' = Closed
  /\ current_list' = Append(current_list, Drop(Strip(lines[idx]), 2))

\* a numbered line kept out of the accumulator and added as an item of an
\* ordered list
NumberedLineOrdered ==
  /\ NextLine
  /\ ~IsTableLine(lines[idx])
  /\ HeadingLevel(lines[idx]) = 0
  /\ ~IsBullet(lines[idx])
  /\ NumberedEnd(lines[idx]) > 0
  /\ LeaveTable
  /\ doc' = Append(FlushList(Closed, current_list),
                   Paragraph(AddFormattedText(NumberedItem(lines[idx])),
                             "List Number"))
  /\ current_list' = <<>>

NumberedLine ==
  /\ NextLine
  /\ ~IsTableLine(lines[idx])
  /\ HeadingLevel(lines[idx]) = 0
  /\ ~IsBullet(lines[idx])
  /\ NumberedEnd(lines[idx]) > 0
  /\ LeaveTable
  /\ doc' = Closed
  /\ current_list' = IF NumberedItem(lines[idx]) # <<>>
                     THEN Append(current_list, NumberedItem(lines[idx]))
                     ELSE current_list

ProseLine ==
  /\ NextLine
  /\ ~IsTableLine(lines[idx])
  /\ HeadingLevel(lines[idx]) = 0
  /\ ~IsBullet(lines[idx])
  /\ NumberedEnd(lines[idx]) = 0
  /\ Strip(lines[idx]) # <<>>
  /\ LeaveTable
  /\ doc' = AddFormattedParagraph(FlushList(Closed, current_list), lines[idx])
  /\ current_list' = <<>>

BlankLine ==
  /\ NextLine
  /\ ~IsTableLine(lines[idx])
  /\ HeadingLevel(lines[idx]) = 0
  /\ ~IsBullet(lines[idx])
  /\ NumberedEnd(lines[idx]) = 0
  /\ Strip(lines[idx]) = <<>>
  /\ LeaveTable
  /\ doc' = FlushList(Closed, current_list)
  /\ current_list' = <<>>

\* after the last line: the open table and the pending list are added, and
\* generate_report goes on to the charts
\* an end of input that leaves what is pending out of the document
ParseEndUnflushed ==
  /\ pc = "parse"
  /\ idx > Len(lines)
  /\ doc' = doc
  /\ pc' = IF include_charts /\ content # <<>> THEN "_extract_all_chart_data"
           ELSE "done"
  /\ UNCHANGED <<session, request, other, content, parser, mining, data>>

ParseEnd ==
  /\ pc = "parse"
  /\ idx > Len(lines)
  /\ doc' = FlushList(IF in_table /\ table_rows # <<>>
                      THEN AddTable(doc, table_rows) ELSE doc, current_list)
  /\ pc' = IF include_charts /\ content # <<>> THEN "_extract_all_chart_data"
           ELSE "done"
  /\ UNCHANGED <<session, request, other, content, parser, mining, data>>

(***************************************************************************)
(* _extract_all_chart_data, a category at a time, and _extract_generic_data *)
(***************************************************************************)
MineType ==
  /\ pc = "_extract_all_chart_data"
  /\ type_data' = ExtractGenericData(content, TypeKeywords)
  /\ charts' = WithChart(<<>>, "bar", type_data', <<"I","s","s","u","e","s"," ","b","y"," ","T","y","p","e">>)
  /\ pc' = "status"
  /\ UNCHANGED <<session, request, other, content, parser, doc, status_data,
                 priority_data, data>>

MineStatus ==
  /\ pc = "status"
  /\ status_data' = ExtractGenericData(content, StatusKeywords)
  /\ charts' = WithChart(charts, "pie", status_data', <<"I","s","s","u","e","s"," ","b","y"," ","S","t","a","t","u","s">>)
  /\ pc' = "priority"
  /\ UNCHANGED <<session, request, other, content, parser, doc, type_data,
                 priority_data, data>>

MinePriority ==
  /\ pc = "priority"
  /\ priority_data' = ExtractGenericData(content, PriorityKeywords)
  /\ charts' = WithChart(charts, "bar_horizontal", priority_data',
                         <<"I","s","s","u","e","s"," ","b","y"," ","P","r","i","o","r","i","t","y">>)
  /\ pc' = IF call = "_extract_all_chart_data" THEN "done" ELSE "charts"
  /\ UNCHANGED <<session, request, other, content, parser, doc, type_data,
                 status_data, data>>

\* generate_report: the heading and the images, when there is a chart
AddCharts ==
  /\ pc = "charts"
  /\ doc' = IF charts # <<>>
            THEN AddChartImages(Append(doc, Heading(<<"V","i","s","u","a","l","i","z","a","t","i","o","n","s">>, 1)), charts)
            ELSE doc
  /\ pc' = "done"
  /\ UNCHANGED <<session, request, other, content, parser, mining, data>>

Mine ==
  /\ pc = "_extract_generic_data"
  /\ data' = ExtractGenericData(content, keywords)
  /\ pc' = "done"
  /\ UNCHANGED <<session, request, other, content, parser, doc, mining>>

(***************************************************************************)
(* Two requests in progress.  Each export_docx call constructs its own     *)
(* ContentExtractor, WordService and Document and keeps the rest in local  *)
(* variables, so that what a request left when it was suspended is what it *)
(* finds when it goes on.                                                  *)
(***************************************************************************)
Locals ==
  [call |-> call, pc |-> pc, analysis_text |-> analysis_text,
   filename |-> filename, include_charts |-> include_charts,
   keywords |-> keywords, content |-> content, lines |-> lines, idx |-> idx,
   current_list |-> current_list, in_table |-> in_table,
   table_rows |-> table_rows, doc |-> doc, type_data |-> type_data,
   status_data |-> status_data, priority_data |-> priority_data,
   charts |-> charts, data |-> data]

\* one Document and one chart list for every request, as they would be were
\* they attributes of a service shared by the requests
ResumeShared(saved) == [saved EXCEPT !.doc = doc, !.charts = charts]

Resume(saved) == saved

Resumed(r) ==
  /\ call' = r.call
  /\ pc' = r.pc
  /\ analysis_text' = r.analysis_text
  /\ filename' = r.filename
  /\ include_charts' = r.include_charts
  /\ keywords' = r.keywords
  /\ content' = r.content
  /\ lines' = r.lines
  /\ idx' = r.idx
  /\ current_list' = r.current_list
  /\ in_table' = r.in_table
  /\ table_rows' = r.table_rows
  /\ doc' = r.doc
  /\ type_data' = r.type_data
  /\ status_data' = r.status_data
  /\ priority_data' = r.priority_data
  /\ charts' = r.charts
  /\ data' = r.data

\* the running request is suspended and the other one goes on
Switch ==
  /\ other # NoRequest
  /\ other' = Locals
  /\ Resumed(Resume(other))
  /\ UNCHANGED session

(***************************************************************************)
(* Specifications                                                          *)
(***************************************************************************)
ParseLine ==
  \/ TableLine
  \/ HeadingLine
  \/ BulletLine
  \/ NumberedLine
  \/ ProseLine
  \/ BlankLine

Next ==
  \/ ExportDocx
  \/ GenerateReport
  \/ ParseLine
  \/ ParseEnd
  \/ MineType
  \/ MineStatus
  \/ MinePriority
  \/ AddCharts

NextReport ==
  \/ GenerateReport
  \/ ParseLine
  \/ ParseEnd

NextMine ==
  \/ Mine
  \/ MineType
  \/ MineStatus
  \/ MinePriority

NextTwo ==
  \/ Next
  \/ Switch

Spec == Init /\ [][Next]_vars
SpecReport == InitReport /\ [][NextReport]_vars
SpecMine == InitMine /\ [][NextMine]_vars
SpecTwo == InitTwo /\ [][NextTwo]_vars

(***************************************************************************)
(* extract_readable_content called on a response                           *)
(***************************************************************************)
\* texts that are no JSON and in which no JSON object can be cut out
FallbackInputs ==
  {<<"{","\"","a","\"",":">>, <<"{","\"","a","\"",":","1",",","}">>, <<"{","&","q","u","o","t",";","a","&","q","u","o","t",";">>, <<"[","1",","," ","2">>,
   <<" "," ","{","x","}"," ","y"," "," ">>, <<"<","c","o","n","t","e","n","t",">","{","o","o","p","s","}","<","/","c","o","n","t","e","n","t",">"," ","t","a","i","l">>,
   BraceInput \o <<" ","t","r","a","i","l","i","n","g">>}

\* a key of a mapping: absent, or present with a value given as its JSON
\* text next to the text the value reduces to
NoKey == [has |-> FALSE, json |-> <<>>, text |-> <<>>]
Opt(json, text) == [has |-> TRUE, json |-> json, text |-> text]

\* "key":value
Pair(key, json) == <<"\"">> \o key \o <<"\"",":">> \o json

\* the JSON text of the object with the pairs that are there
Obj(pairs) ==
  <<"{">> \o Join(SelectSeq(pairs, LAMBDA p : p # <<>>), <<",">>) \o <<"}">>

PairOf(key, opt) == IF opt.has THEN Pair(key, opt.json) ELSE <<>>

\* the six keys the fallback of _extract_all skips, all in the mapping
DenyPairs ==
  <<"\"","i","c","o","n","N","a","m","e","\"",":","\"","i","\"",",","\"","i","c","o","n","C","a","t","e","g","o","r","y","\"",":","\"","c","\"",",","\"","v","a","r","i","a","n","t","\"",":","\"","v","\"",",">>
  \o <<"\"","t","y","p","e","\"",":","\"","t","\"",",","\"","i","s","F","o","l","d","a","b","l","e","\"",":","t","r","u","e",",","\"","v","a","l","u","e","\"",":","\"","V","\"">>

\* mappings without a component key: each of the keys content, children,
\* sections, items and rows is absent, present with a value that reduces to
\* no text, or present with a text; so are a title and a note, and the six
\* skipped keys are there or not
Mappings ==
  [content : {NoKey, Opt(<<"\"","\"">>, <<>>), Opt(<<"\"","C","\"">>, <<"C">>)},
   children : {NoKey, Opt(<<"[","\"","D","\"",",","\"","E","\"","]">>, <<"D","\n","\n","E">>)},
   sections : {NoKey, Opt(<<"\"","S","\"">>, <<"S">>)},
   items : {NoKey, Opt(<<"7">>, <<"7">>)},
   rows : {NoKey, Opt(<<"{","\"","v","a","l","u","e","\"",":","5","}">>, <<>>), Opt(<<"\"","R","\"">>, <<"R">>)},
   title : {NoKey, Opt(<<"\"","T","\"">>, <<"T">>)},
   note : {NoKey, Opt(<<"\"","N","\"">>, <<"N">>)},
   deny : BOOLEAN]

\* the keys are written in another order than the one _extract_all tries
MappingText(m) ==
  Obj(<<PairOf(<<"t","i","t","l","e">>, m.title), PairOf(<<"r","o","w","s">>, m.rows),
        PairOf(<<"i","t","e","m","s">>, m.items), IF m.deny THEN DenyPairs ELSE <<>>,
        PairOf(<<"s","e","c","t","i","o","n","s">>, m.sections), PairOf(<<"c","h","i","l","d","r","e","n">>, m.children),
        PairOf(<<"c","o","n","t","e","n","t">>, m.content), PairOf(<<"n","o","t","e">>, m.note)>>)

MappingInputs == {MappingText(m) : m \in Mappings}

\* a child of a component: its JSON text, the text it reduces to, and
\* whether it is a component mapping or a plain string
Child(json, text, dict) == [json |-> json, text |-> text, dict |-> dict]
ChildX == Child(<<"{","\"","c","o","m","p","o","n","e","n","t","\"",":","\"","t","e","x","t","\"",",","\"","p","r","o","p","s","\"",":","{","\"","t","e","x","t","\"",":","\"","x","\"","}","}">>, <<"x">>, TRUE)
ChildY == Child(<<"{","\"","c","o","m","p","o","n","e","n","t","\"",":","\"","h","e","a","d","e","r","\"",",","\"","p","r","o","p","s","\"",":","{","\"","t","i","t","l","e","\"",":","\"","y","\"","}","}">>, <<"#","#"," ","y">>, TRUE)
ChildZ == Child(<<"{","\"","c","o","m","p","o","n","e","n","t","\"",":","\"","t","e","x","t","\"",",","\"","p","r","o","p","s","\"",":","{","\"","t","e","x","t","\"",":","\"","z","\"","}","}">>, <<"z">>, TRUE)
ChildS == Child(<<"\"","s","\"">>, <<"s">>, FALSE)

\* an array of children under a key of props, or no such key
NoList == [has |-> FALSE, of |-> <<>>]
ListOf(children) == [has |-> TRUE, of |-> children]

ListPair(key, list) ==
  IF list.has
  THEN Pair(key, JsonArray([i \in 1..Len(list.of) |-> list.of[i].json]))
  ELSE <<>>

\* a kind: the discriminant, the properties the kind reads, what the branch
\* of the kind emits from them, and whether the branch reduces props.children
\* itself; gauge is no kind the extractor knows
Kind(name, props, own, block) ==
  [name |-> name, props |-> props, own |-> own, block |-> block]

Kinds ==
  {Kind(<<"g","a","u","g","e">>, <<>>, <<>>, FALSE),
   Kind(<<"M","i","n","i","C","a","r","d","B","l","o","c","k">>, <<>>, <<>>, TRUE),
   Kind(<<"t","e","x","t">>, <<"\"","t","e","x","t","\"",":","\"","x","\"">>, <<<<"x">>>>, FALSE),
   Kind(<<"c","a","r","d">>, <<"\"","t","i","t","l","e","\"",":","\"","x","\"">>, <<<<"*","*","x","*","*">>>>, FALSE)}

Nested ==
  [kind : Kinds,
   children : {NoList, ListOf(<<>>), ListOf(<<ChildX>>),
               ListOf(<<ChildX, ChildX>>), ListOf(<<ChildX, ChildY>>),
               ListOf(<<ChildX, ChildS, ChildY>>),
               ListOf(<<ChildY, ChildX, ChildY>>)},
   content : {NoList, ListOf(<<ChildX>>), ListOf(<<ChildZ, ChildX>>)}]

NestedText(c) ==
  Obj(<<Pair(<<"c","o","m","p","o","n","e","n","t">>, <<"\"">> \o c.kind.name \o <<"\"">>),
        Pair(<<"p","r","o","p","s">>, Obj(<<c.kind.props, ListPair(<<"c","h","i","l","d","r","e","n">>, c.children),
                              ListPair(<<"c","o","n","t","e","n","t">>, c.content)>>))>>)

\* a component of an unknown kind whose props are null, and one without props
UnknownNullProps == <<"{","\"","c","o","m","p","o","n","e","n","t","\"",":","\"","g","a","u","g","e","\"",",","\"","p","r","o","p","s","\"",":","n","u","l","l","}">>
UnknownNoProps == <<"{","\"","c","o","m","p","o","n","e","n","t","\"",":","\"","g","a","u","g","e","\"","}">>

NestedInputs ==
  {NestedText(c) : c \in Nested} \cup {UnknownNullProps, UnknownNoProps}

Quoted(s) == <<"\"">> \o s \o <<"\"">>

\* a series of a chart: {"values":[...]}, or a mapping without values
NoValues == [has |-> FALSE, of |-> <<>>]
SeriesText(s) ==
  IF s.has THEN Obj(<<Pair(<<"v","a","l","u","e","s">>, JsonArray(s.of))>>) ELSE <<"{","\"","x","\"",":","1","}">>

\* one or two labels; no series key, no series, one, two or three series, a
\* series longer than the labels and one without values; a values and a data
\* array next to the series, or not
Charts ==
  [kind : {<<"b","a","r","c","h","a","r","t">>, <<"P","i","e","C","h","a","r","t","V","2">>},
   title : BOOLEAN,
   labels : {<<<<"a">>, <<"b">>>>, <<<<"a">>>>},
   series : {NoList, ListOf(<<>>),
             ListOf(<<ListOf(<<<<"1">>, <<"2">>>>)>>),
             ListOf(<<ListOf(<<<<"1">>, <<"2">>>>), ListOf(<<<<"3">>, <<"4">>>>)>>),
             ListOf(<<ListOf(<<<<"1">>, <<"2">>, <<"3">>>>)>>),
             ListOf(<<NoValues>>),
             ListOf(<<ListOf(<<<<"5">>, <<"6">>>>), NoValues, ListOf(<<<<"7">>>>)>>)},
   values : {NoList, ListOf(<<<<"9">>, <<"8">>>>)},
   data : {NoList, ListOf(<<<<"7">>>>)}]

NumbersPair(key, list) ==
  IF list.has THEN Pair(key, JsonArray(list.of)) ELSE <<>>

ChartText(c) ==
  Obj(<<Pair(<<"c","o","m","p","o","n","e","n","t">>, Quoted(c.kind)),
        Pair(<<"p","r","o","p","s">>,
          Obj(<<IF c.title THEN <<"\"","t","i","t","l","e","\"",":","\"","T","\"">> ELSE <<>>,
                Pair(<<"c","h","a","r","t","D","a","t","a">>,
                  Obj(<<Pair(<<"d","a","t","a">>,
                    Obj(<<Pair(<<"l","a","b","e","l","s">>,
                            JsonArray([i \in 1..Len(c.labels) |->
                                         Quoted(c.labels[i])])),
                          IF c.series.has
                          THEN Pair(<<"s","e","r","i","e","s">>,
                                 JsonArray([i \in 1..Len(c.series.of) |->
                                              SeriesText(c.series.of[i])]))
                          ELSE <<>>,
                          NumbersPair(<<"v","a","l","u","e","s">>, c.values),
                          NumbersPair(<<"d","a","t","a">>, c.data)>>))>>))>>))>>)

ChartInputs == {ChartText(c) : c \in Charts}

\* a cell of a table: its JSON text and the value it shows, a plain value or
\* a mapping {children: value}
Cell(json, text) == [json |-> json, text |-> text]
CellA == Cell(<<"\"","a","\"">>, <<"a">>)
CellB == Cell(<<"\"","b","\"">>, <<"b">>)
Cell5 == Cell(<<"5">>, <<"5">>)
CellOfB == Cell(<<"{","\"","c","h","i","l","d","r","e","n","\"",":","\"","b","\"","}">>, <<"b">>)
CellH1 == Cell(<<"\"","H","1","\"">>, <<"H","1">>)
CellOfH2 == Cell(<<"{","\"","c","h","i","l","d","r","e","n","\"",":","\"","H","2","\"","}">>, <<"H","2">>)

\* a body row: the list of its cells, as it is or under the key children
Row(dict, cells) == [dict |-> dict, cells |-> cells]
TableRows ==
  {Row(FALSE, <<CellA, CellB>>), Row(TRUE, <<CellA, Cell5>>),
   Row(FALSE, <<CellA, CellOfB>>), Row(TRUE, <<CellOfB, CellB>>)}

CellsText(cells) == JsonArray([i \in 1..Len(cells) |-> cells[i].json])

RowText(row) ==
  IF row.dict THEN Obj(<<Pair(<<"c","h","i","l","d","r","e","n">>, CellsText(row.cells))>>)
  ELSE CellsText(row.cells)

Tables ==
  [header : {NoList, ListOf(<<>>), ListOf(<<CellH1>>),
             ListOf(<<CellH1, CellOfH2>>)},
   body : SeqsUpTo(TableRows, MaxItems)]

TableText(t) ==
  Obj(<<Pair(<<"c","o","m","p","o","n","e","n","t">>, Quoted(<<"t","a","b","l","e">>)),
        Pair(<<"p","r","o","p","s">>,
          Obj(<<IF t.header.has
                THEN Pair(<<"t","a","b","l","e","H","e","a","d","e","r">>,
                          Obj(<<Pair(<<"r","o","w","s">>, CellsText(t.header.of))>>))
                ELSE <<>>,
                Pair(<<"t","a","b","l","e","B","o","d","y">>,
                     Obj(<<Pair(<<"r","o","w","s">>,
                            JsonArray([i \in 1..Len(t.body) |->
                                         RowText(t.body[i])]))>>))>>))>>)

TableInputs == {TableText(t) : t \in Tables}

ExtractInputs ==
  FallbackInputs \cup MappingInputs \cup NestedInputs \cup ChartInputs
  \cup TableInputs

InitExtract ==
  /\ call = "extract_readable_content"
  /\ pc = "extract_readable_content"
  /\ data_loaded = FALSE
  /\ last_response \in ExtractInputs
  /\ conversation_history = <<>>
  /\ analysis_text = None
  /\ filename = None
  /\ include_charts = FALSE
  /\ keywords = <<>>
  /\ content = <<>>
  /\ Idle

\* the call returns a str or lets an exception through
Returned(r) ==
  /\ pc' = IF r.raised THEN "raised" ELSE "returned"
  /\ content' = r.text

Extract ==
  /\ pc = "extract_readable_content"
  /\ Returned(ExtractReadableContent(last_response))
  /\ UNCHANGED <<session, request, other, parser, doc, mining, data>>

NextExtract == Extract

SpecExtract == InitExtract /\ [][NextExtract]_vars

(***************************************************************************)
(* The requests on one session: upload, chat and export, through the REST  *)
(* routes and through the chat handler.  The variables data_loaded,        *)
(* conversation_history, last_response and document_service are the        *)
(* session of the id in the store of the routes; chat_sessions is the      *)
(* store of the chat handler.  A chat is two steps: the handler up to the  *)
(* start of the stream, and the end of the stream; requests of other       *)
(* connections run between the two.  Timestamps of the entries are left    *)
(* out.                                                                    *)
(***************************************************************************)
SessionId == "s1"

NewSession ==
  [document_service |-> NoDocument, data_loaded |-> FALSE,
   conversation_history |-> <<>>, last_response |-> None]

\* get_session: the store with a session for the id, created when missing
GetSession(sessions, id) ==
  IF id \in DOMAIN sessions THEN sessions
  ELSE [k \in DOMAIN sessions \cup {id} |->
          IF k = id THEN NewSession ELSE sessions[k]]

\* the session of the id in the store of the routes
RoutesSession ==
  [document_service |-> document_service, data_loaded |-> data_loaded,
   conversation_history |-> conversation_history,
   last_response |-> last_response]

SetRoutes(s) ==
  /\ document_service' = s.document_service
  /\ data_loaded' = s.data_loaded
  /\ conversation_history' = s.conversation_history
  /\ last_response' = s.last_response

EndsWith(s, p) ==
  Len(s) >= Len(p) /\ SubSeq(s, Len(s) - Len(p) + 1, Len(s)) = p

\* filename.endswith((".xlsx", ".xls"))
IsExcelName(name) == EndsWith(name, <<".","x","l","s","x">>) \/ EndsWith(name, <<".","x","l","s">>)

\* the upload handlers from get_session on: load_excel on the document
\* service of the session, then the flag and the history
Uploaded(s, file) ==
  LET result == LoadExcel(s.document_service, file)
  IN IF ~result.success
     THEN [s EXCEPT !.document_service = result.service]
     ELSE [s EXCEPT !.document_service = result.service,
                    !.data_loaded = TRUE,
                    !.conversation_history = <<>>]

\* the user entry a chat appends before the stream starts
Asked(s, prompt) ==
  [s EXCEPT !.conversation_history = Append(@, Entry("user", prompt))]

\* the end of a stream: the assistant entry and last_response
Answered(s, full_response) ==
  [s EXCEPT !.conversation_history = Append(@, Entry("assistant", full_response)),
            !.last_response = full_response]

\* an export up to the call of generate_report
ExportResult(loaded, text) ==
  IF ~loaded THEN [pc |-> "rejected", text |-> <<>>]
  ELSE IF text.raised THEN [pc |-> "raised", text |-> <<>>]
  ELSE [pc |-> "exported", text |-> text.text]

ExportOf(s, given) ==
  ExportResult(s.data_loaded,
               AnalysisText(given, s.conversation_history, s.last_response))

SetExport(handler, given, name, result) ==
  /\ call' = handler
  /\ analysis_text' = given
  /\ filename' = name
  /\ pc' = result.pc
  /\ content' = result.text

\* a session just created through the routes
InitSession ==
  /\ call = "create_session"
  /\ pc = "created"
  /\ NoSession
  /\ filename = None
  /\ include_charts = TRUE
  /\ keywords = <<>>
  /\ content = <<>>
  /\ Idle

\* routes.upload_document
UploadDocument ==
  /\ \E file \in Files :
       IF ~IsExcelName(file.name) THEN UNCHANGED <<session>>
       ELSE /\ SetRoutes(Uploaded(RoutesSession, file))
            /\ UNCHANGED <<chat_sessions, chats>>
  /\ UNCHANGED <<pc, request, content, parser, doc, mining, data, other>>

\* routes.chat: the handler, up to the StreamingResponse
Chat ==
  /\ \E prompt \in Prompts :
       /\ chats[prompt] = "none"
       /\ SetRoutes(Asked(RoutesSession, prompt))
       /\ chats' = [chats EXCEPT ![prompt] = "routes"]
  /\ UNCHANGED <<chat_sessions, pc, request, content, parser, doc, mining,
                 data, other>>

\* routes.chat, generate(): the stream is over
Generated ==
  /\ \E prompt \in Prompts :
       /\ chats[prompt] = "routes"
       /\ SetRoutes(Answered(RoutesSession, Answer(prompt)))
       /\ chats' = [chats EXCEPT ![prompt] = "done"]
  /\ UNCHANGED <<chat_sessions, pc, request, content, parser, doc, mining,
                 data, other>>

\* routes.chat, generate(): the call of the model raises
GenerateError ==
  /\ \E prompt \in Prompts :
       /\ chats[prompt] = "routes"
       /\ chats' = [chats EXCEPT ![prompt] = "done"]
  /\ UNCHANGED <<data_loaded, conversation_history, last_response,
                 document_service, chat_sessions, pc, request, content,
                 parser, doc, mining, data, other>>

\* routes.export_pdf
ExportPdf ==
  /\ \E given \in GivenTexts :
       SetExport("export_pdf", given, document_service.filename,
                 ExportOf(RoutesSession, given))
  /\ UNCHANGED <<session, include_charts, keywords, parser, doc, mining, data,
                 other>>

\* ChatHandler.handle_upload
HandleUpload ==
  /\ \E file \in Files :
       IF ~IsExcelName(file.name) THEN UNCHANGED chat_sessions
       ELSE chat_sessions' =
              [GetSession(chat_sessions, SessionId)
                 EXCEPT ![SessionId] = Uploaded(@, file)]
  /\ UNCHANGED <<data_loaded, conversation_history, last_response,
                 document_service, chats, pc, request, content, parser, doc,
                 mining, data, other>>

\* ChatHandler.handle_chat up to the first chunk
HandleChat ==
  /\ \E prompt \in Prompts :
       /\ chats[prompt] = "none"
       /\ chat_sessions' =
            [GetSession(chat_sessions, SessionId)
               EXCEPT ![SessionId] = Asked(@, prompt)]
       /\ chats' = [chats EXCEPT ![prompt] = "chat"]
  /\ UNCHANGED <<data_loaded, conversation_history, last_response,
                 document_service, pc, request, content, parser, doc, mining,
                 data, other>>

\* ChatHandler.handle_chat: the stream is over
HandleChatDone ==
  /\ \E prompt \in Prompts :
       /\ chats[prompt] = "chat"
       /\ chat_sessions' =
            [chat_sessions EXCEPT ![SessionId] = Answered(@, Answer(prompt))]
       /\ chats' = [chats EXCEPT ![prompt] = "done"]
  /\ UNCHANGED <<data_loaded, conversation_history, last_response,
                 document_service, pc, request, content, parser, doc, mining,
                 data, other>>

\* ChatHandler.handle_chat: the call of the model raises
HandleChatError ==
  /\ \E prompt \in Prompts :
       /\ chats[prompt] = "chat"
       /\ chats' = [chats EXCEPT ![prompt] = "done"]
  /\ UNCHANGED <<data_loaded, conversation_history, last_response,
                 document_service, chat_sessions, pc, request, content,
                 parser, doc, mining, data, other>>

\* ChatHandler.handle_export
HandleExport ==
  /\ chat_sessions' = GetSession(chat_sessions, SessionId)
  /\ \E given \in GivenTexts :
       SetExport("handle_export", given,
                 chat_sessions'[SessionId].document_service.filename,
                 ExportOf(chat_sessions'[SessionId], given))
  /\ UNCHANGED <<data_loaded, conversation_history, last_response,
                 document_service, chats, include_charts, keywords, parser,
                 doc, mining, data, other>>

\* the requests through the routes
NextSession ==
  \/ UploadDocument
  \/ Chat
  \/ Generated
  \/ GenerateError
  \/ ExportPdf

SpecSession == InitSession /\ [][NextSession]_vars

\* the requests through the chat handler, and uploads through the routes
NextStores ==
  \/ UploadDocument
  \/ HandleUpload
  \/ HandleChat
  \/ HandleChatDone
  \/ HandleChatError
  \/ HandleExport

SpecStores == InitSession /\ [][NextStores]_vars

(***************************************************************************)
(* The PDF service on the text the Word service has just worked on: when a *)
(* run of the Word parser or of the Word miner is over, the PDF function   *)
(* of the same name is called with the same arguments and its result kept  *)
(* in other.                                                               *)
(***************************************************************************)
PdfResult(name, story, mapping, chart_list) ==
  [pc |-> name, story |-> story, data |-> mapping, charts |-> chart_list]

\* PDFService._add_formatted_text(story, text) on an empty story
PdfFormat ==
  /\ call = "generate_report"
  /\ pc = "done"
  /\ other' = PdfResult("_add_formatted_text", PdfAddFormattedText(<<>>, content),
                        EmptyData, <<>>)
  /\ pc' = "both"
  /\ UNCHANGED <<session, request, content, parser, doc, mining, data>>

\* PDFService._extract_generic_data(content, keywords)
PdfMine ==
  /\ call = "_extract_generic_data"
  /\ pc = "done"
  /\ other' = PdfResult("_extract_generic_data", <<>>,
                        PdfExtractGenericData(content, keywords), <<>>)
  /\ pc' = "both"
  /\ UNCHANGED <<session, request, content, parser, doc, mining, data>>

\* PDFService._extract_all_chart_data(content)
PdfCharts ==
  /\ call = "_extract_all_chart_data"
  /\ pc = "done"
  /\ other' = PdfResult("_extract_all_chart_data", <<>>, EmptyData,
                        PdfExtractAllChartData(content))
  /\ pc' = "both"
  /\ UNCHANGED <<session, request, content, parser, doc, mining, data>>

NextBothReports ==
  \/ NextReport
  \/ PdfFormat

NextBothMiners ==
  \/ NextMine
  \/ PdfMine
  \/ PdfCharts

SpecBothReports == InitReport /\ [][NextBothReports]_vars
SpecBothMiners == InitMine /\ [][NextBothMiners]_vars

(***************************************************************************)
(* Properties of the extractor, checked on the exports of Spec.  With no   *)
(* history in the session and no text in the request, the analysis text of *)
(* an export is extract_readable_content(last_response).                   *)
(***************************************************************************)
FromLastResponse ==
  /\ data_loaded
  /\ conversation_history = <<>>
  /\ analysis_text = None
  /\ last_response # None
  /\ pc # "export_docx"

\* the nodes generate_report added after the title, the date and the source
Body == SubSeq(doc, Len(Preamble(filename)) + 1, Len(doc))

\* C1: extract_readable_content is total: whatever the shape of the nodes of
\* the JSON it is given, it returns a string and no exception reaches the
\* caller, so no export ends with an exception of the extractor.
C1_NeverRaises == pc # "raised"

JsonLiterals ==
  {<<"t","r","u","e">>, <<"f","a","l","s","e">>, <<"n","u","l","l">>, <<"N","a","N">>, <<"I","n","f","i","n","i","t","y">>, <<"-","I","n","f","i","n","i","t","y">>}

\* only the characters of a JSON number
IsNumberLike(s) ==
  \A i \in 1..Len(s) : IsDigit(s[i]) \/ s[i] \in {"-", "+", ".", "e", "E"}

\* the first character after position 1 that is no whitespace, "" if none
AfterBrace(s) ==
  IF SkipWs(s, 2) <= Len(s) THEN s[SkipWs(s, 2)] ELSE ""

\* plain prose: a text without a <content> envelope in which no JSON
\* document starts: it is no literal and no number, and begins neither a
\* string, nor an array, nor an object (a brace followed by a key or by the
\* closing brace)
IsProse(text) ==
  /\ Find(text, <<"<","c","o","n","t","e","n","t">>, 1) = 0
  /\ Strip(text) # <<>>
  /\ Strip(text) \notin JsonLiterals
  /\ ~IsNumberLike(Strip(text))
  /\ Strip(text)[1] \notin {"[", "\""}
  /\ Strip(text)[1] = "{" => AfterBrace(Strip(text)) \notin {"\"", "}"}

\* C2: for a text that, once its HTML entities are decoded, is plain prose,
\* extract_readable_content returns html.unescape of the text exactly, with
\* no character added, removed or trimmed.
C2_ProseIsUnescaped ==
  (FromLastResponse /\ IsProse(HtmlUnescape(last_response)))
    => /\ pc # "raised"
       /\ content = HtmlUnescape(last_response)
       /\ last_response = <<"R","&","a","m","p",";","D"," ","&","l","t",";","b","&","g","t",";"," ","r","e","v","i","e","w">>
            => content = <<"R","&","D"," ","<","b",">"," ","r","e","v","i","e","w">>
       /\ last_response = <<" "," ","T","o","t","a","l",":"," ","O","p","e","n"," ","3"," "," ">> => content = last_response

C2_Witness ==
  /\ FromLastResponse
  /\ IsProse(HtmlUnescape(last_response))
  /\ HtmlUnescape(last_response) # last_response
  /\ pc = "done"

\* the texts occur in out one after the other, from position `from` on
RECURSIVE InOrder(_, _, _)
InOrder(texts, out, from) ==
  IF texts = <<>> THEN TRUE
  ELSE IF Find(out, texts[1], from) = 0 THEN FALSE
  ELSE InOrder(Tail(texts), out, Find(out, texts[1], from) + Len(texts[1]))

\* the sequences of components the responses are made of
ComponentLists == SeqsUpTo(Components, MaxItems) \cup {<<TextInput, HeaderInput, TextInput>>}

\* C3: order preservation: when a sequence of components is reduced, at the
\* top level or as the children of a component, the output holds the text of
\* each component of the sequence, one after the other in the order of the
\* sequence.
C3_OrderPreserved ==
  \A s \in ComponentLists :
    (FromLastResponse /\ pc # "raised" /\ last_response \in {JsonArray(s), CardOf(s)})
      => InOrder([i \in 1..Len(s) |-> ExtractReadableContent(s[i]).text],
                 content, 1)

\* C7: end to end, the header component with the title Summary is extracted
\* to exactly "## Summary", which the report parser turns into exactly one
\* heading of level 2 with the text Summary, and no chart is built for it.
C7_HeaderEndToEnd ==
  (FromLastResponse /\ last_response = HeaderInput)
    => /\ pc # "raised"
       /\ content = <<"#","#"," ","S","u","m","m","a","r","y">>
       /\ charts = <<>>
       /\ pc = "done" => Body = <<Heading(<<"S","u","m","m","a","r","y">>, 2)>>

C7_Witness ==
  /\ FromLastResponse
  /\ last_response = HeaderInput
  /\ pc = "done"
  /\ Len(Body) = 1
  /\ type_data = EmptyData /\ status_data = EmptyData /\ priority_data = EmptyData

\* C10: for a JSON object J followed by text T that is no JSON,
\* extract_readable_content returns the reduction of J alone, also when a
\* string of J holds a brace.
C10_TrailingTextDiscarded ==
  \A c \in TrailingCases :
    (FromLastResponse /\ last_response = c.j \o c.t)
      => /\ pc # "raised"
         /\ content = ExtractReadableContent(c.j).text

(***************************************************************************)
(* Properties of the keyword miner and of the chart builder, checked on    *)
(* the calls of SpecMine                                                   *)
(***************************************************************************)
\* the patterns, by number, that match the keyword somewhere in the text
Hits(text, kw) == {k \in 1..6 : PatternN(k, text, kw).hit}

Lowest(S) == CHOOSE k \in S : \A j \in S : k <= j

HasData(d, kw) == \E i \in 1..Len(d.keys) : d.keys[i] = kw

DataGet(d, kw) == d.vals[CHOOSE i \in 1..Len(d.keys) : d.keys[i] = kw]

IntValue(n) == [float |-> FALSE, n |-> n, frac |-> <<>>]

Mined1 == call = "_extract_generic_data" /\ pc = "done"

\* C4: mining follows the priority of the six patterns: a keyword that one
\* or more patterns match gets the value of the lowest-numbered pattern among
\* them, so that a count of patterns 1 to 5 wins over a percentage of
\* pattern 6.
C4_LowestPatternWins ==
  Mined1 =>
    /\ \A i \in 1..Len(keywords) :
         Hits(content, keywords[i]) # {} =>
           /\ HasData(data, keywords[i])
           /\ DataGet(data, keywords[i]) =
                Number(PatternN(Lowest(Hits(content, keywords[i])), content,
                                keywords[i]))
    /\ (content = <<"B","u","g"," ","3","8",".","1","0","%","\n","B","u","g",":"," ","1","2">> /\ keywords[1] = <<"B","u","g">>)
         => DataGet(data, <<"B","u","g">>) = IntValue(12)
    /\ (content = <<"B","u","g"," ","3","8",".","1","0","%">> /\ keywords[1] = <<"B","u","g">>)
         => DataGet(data, <<"B","u","g">>) = [float |-> TRUE, n |-> 38, frac |-> <<"1">>]

\* a keyword matched by the percentage pattern and by an earlier one, which
\* give different values
C4_Witness ==
  /\ Mined1
  /\ \E i \in 1..Len(keywords) :
       /\ 6 \in Hits(content, keywords[i])
       /\ Lowest(Hits(content, keywords[i])) < 6
       /\ DataGet(data, keywords[i]) # Number(Pattern6(content, keywords[i]))

\* C5: the result of the miner holds exactly the keywords that a pattern
\* matched, each once: a keyword without a match is absent, and every key is
\* one of the keywords given; for "Bug: 12\nTask: 5" and the keywords Bug,
\* Task, Epic the result is {Bug: 12, Task: 5}.
C5_KeysAreTheMatchedKeywords ==
  Mined1 =>
    /\ {data.keys[i] : i \in 1..Len(data.keys)} =
         {keywords[i] : i \in {j \in 1..Len(keywords) : Hits(content, keywords[j]) # {}}}
    /\ \A i, j \in 1..Len(data.keys) : data.keys[i] = data.keys[j] => i = j
    /\ Len(data.vals) = Len(data.keys)
    /\ (content = <<"B","u","g",":"," ","1","2","\n","T","a","s","k",":"," ","5">> /\ keywords = <<<<"B","u","g">>, <<"T","a","s","k">>, <<"E","p","i","c">>>>)
         => data = [keys |-> <<<<"B","u","g">>, <<"T","a","s","k">>>>,
                    vals |-> <<IntValue(12), IntValue(5)>>]

C5_Witness ==
  /\ Mined1
  /\ content = <<"B","u","g",":"," ","1","2","\n","T","a","s","k",":"," ","5">>
  /\ keywords = <<<<"B","u","g">>, <<"T","a","s","k">>, <<"E","p","i","c">>>>
  /\ ~HasData(data, <<"E","p","i","c">>)
  /\ Len(data.keys) = 2

\* the kinds of the charts of the three categories, in the order of the code
CategoryKinds == <<"bar", "pie", "bar_horizontal">>

\* C6: the chart builder emits at most three charts, in the order type,
\* status, priority and of the kinds bar, pie, bar_horizontal; a category has
\* a chart if and only if its mined mapping is not empty; the labels and the
\* values of a chart have the same length and values[i] is the value mined
\* for labels[i].
C6_ChartsFollowTheCategories ==
  (call = "_extract_all_chart_data" /\ pc = "done") =>
    LET mined == <<type_data, status_data, priority_data>>
        emitted == SelectSeq(<<1, 2, 3>>, LAMBDA k : mined[k].keys # <<>>)
    IN /\ type_data = ExtractGenericData(content, TypeKeywords)
       /\ status_data = ExtractGenericData(content, StatusKeywords)
       /\ priority_data = ExtractGenericData(content, PriorityKeywords)
       /\ Len(charts) <= 3
       /\ Len(charts) = Len(emitted)
       /\ \A i \in 1..Len(charts) :
            /\ charts[i].type = CategoryKinds[emitted[i]]
            /\ charts[i].labels = mined[emitted[i]].keys
            /\ charts[i].values = mined[emitted[i]].vals
            /\ Len(charts[i].labels) = Len(charts[i].values)
            /\ \A j \in 1..Len(charts[i].labels) :
                 charts[i].values[j] =
                   Number(MineKeyword(content, charts[i].labels[j]))

\* a chart for the first and for the last category and none for the second
C6_Witness ==
  /\ call = "_extract_all_chart_data"
  /\ pc = "done"
  /\ Len(charts) = 2
  /\ status_data = EmptyData
  /\ charts[1].type = "bar"
  /\ charts[2].type = "bar_horizontal"

(***************************************************************************)
(* Properties of the report parser, checked on the reports of SpecReport   *)
(***************************************************************************)
TablesIn(nodes) == SelectSeq(nodes, LAMBDA n : n.kind = "table")

\* the elements of a set of numbers in ascending order
Ascending(S) ==
  [k \in 1..Cardinality(S) |->
     CHOOSE i \in S : Cardinality({j \in S : j < i}) = k - 1]

\* the first lines of the runs of consecutive table lines
RunStarts(ls) ==
  {i \in 1..Len(ls) : IsTableLine(ls[i]) /\ (i = 1 \/ ~IsTableLine(ls[i - 1]))}

\* the last line of the run that starts at line i
RunEnd(ls, i) ==
  CHOOSE j \in i..Len(ls) :
    /\ \A k \in i..j : IsTableLine(ls[k])
    /\ j = Len(ls) \/ ~IsTableLine(ls[j + 1])

RunLines(ls, i) == [k \in 1..(RunEnd(ls, i) - i + 1) |-> ls[i + k - 1]]

\* the trimmed cells of each line of the run that is no separator line
CellsOfRun(ls, i) ==
  LET kept == SelectSeq(RunLines(ls, i), LAMBDA l : ~IsSeparator(l))
  IN [k \in 1..Len(kept) |-> Cells(kept[k])]

\* the same without the lines that have no cell
RowsOfRun(ls, i) == SelectSeq(CellsOfRun(ls, i), LAMBDA r : r # <<>>)

Width(rows) == CHOOSE n \in {Len(rows[k]) : k \in 1..Len(rows)} :
                 \A k \in 1..Len(rows) : Len(rows[k]) <= n

\* every row filled with empty cells up to the widest row
Padded(rows) ==
  [k \in 1..Len(rows) |->
     rows[k] \o [j \in 1..(Width(rows) - Len(rows[k])) |-> <<>>]]

TableExample == <<"|"," ","A"," ","|"," ","B"," ","|","\n","|","-","-","-","|","-","-","-","|","\n","|"," ","1"," ","|"," ","2"," ","|">>

TableExampleRows ==
  <<<<<<"A">>, <<"B">>>>, <<<<"1">>, <<"2">>>>>>

\* C8 as stated: every run of consecutive table lines yields exactly one
\* table, whose rows are, in the order of the input, the trimmed cells of
\* each line of the run that is no separator line.
C8_OneTablePerRun ==
  pc = "done" =>
    TablesIn(Body) =
      [k \in 1..Cardinality(RunStarts(lines)) |->
         Table(CellsOfRun(lines, Ascending(RunStarts(lines))[k]))]

\* C8, amended: a run of consecutive table lines yields one table when one
\* of its lines is no separator line and has a cell, and no table otherwise;
\* the rows of the table are, in the order of the input, the trimmed cells of
\* each such line, filled with empty cells up to the widest row.  For
\* "| A | B |\n|---|---|\n| 1 | 2 |" the rows are [["A","B"],["1","2"]].
C8_OneTablePerRunWithRows ==
  pc = "done" =>
    LET starts == SelectSeq(Ascending(RunStarts(lines)),
                            LAMBDA i : RowsOfRun(lines, i) # <<>>)
    IN /\ TablesIn(Body) =
            [k \in 1..Len(starts) |-> Table(Padded(RowsOfRun(lines, starts[k])))]
       /\ content = TableExample => TablesIn(Body) = <<Table(TableExampleRows)>>

\* a report with a separator line in a run that yields a table of two rows
C8_Witness ==
  /\ pc = "done"
  /\ \E i \in 1..Len(lines) : IsSeparator(lines[i])
  /\ Len(TablesIn(Body)) = 1
  /\ Len(TablesIn(Body)[1].rows) = 2

\* a row without the empty cells at its end
RECURSIVE Unpadded(_)
Unpadded(row) ==
  IF row # <<>> /\ row[Len(row)] = <<>>
  THEN Unpadded(SubSeq(row, 1, Len(row) - 1)) ELSE row

RowEvent(cells) == [kind |-> "row", cells |-> Unpadded(cells), runs |-> <<>>]
ItemEvent(text) == [kind |-> "item", cells |-> <<>>, runs |-> AddFormattedText(text)]

RECURSIVE Concat(_)
Concat(seqs) == IF seqs = <<>> THEN <<>> ELSE seqs[1] \o Concat(Tail(seqs))

\* the rows and the list items a node of the document shows
NodeEvents(n) ==
  IF n.kind = "table" THEN [k \in 1..Len(n.rows) |-> RowEvent(n.rows[k])]
  ELSE IF n.kind = "paragraph" /\ n.style = "List Bullet"
  THEN <<[kind |-> "item", cells |-> <<>>, runs |-> n.runs]>>
  ELSE <<>>

\* the row or the list item a line of the input stands for
LineEvents(line) ==
  IF IsTableLine(line)
  THEN IF ~IsSeparator(line) /\ Cells(line) # <<>> THEN <<RowEvent(Cells(line))>>
       ELSE <<>>
  ELSE IF HeadingLevel(line) > 0 THEN <<>>
  ELSE IF IsBullet(line) THEN <<ItemEvent(Drop(Strip(line), 2))>>
  ELSE IF NumberedItem(line) # <<>> THEN <<ItemEvent(NumberedItem(line))>>
  ELSE <<>>

\* the rows and the items collected and not yet in the document
Pending ==
  IF pc = "done" THEN <<>>
  ELSE [k \in 1..Len(table_rows) |-> RowEvent(table_rows[k])]
       \o [k \in 1..Len(current_list) |-> ItemEvent(current_list[k])]

\* C9: at the boundary of a list and a table the parser emits the pending
\* list before it starts the table, and the collected table before an item
\* joins a list: the list items and the table rows of the document, followed
\* by those still pending (never both a list and rows), are those of the
\* lines read, in the order of the lines.
C9_ListsAndTablesInLineOrder ==
  (pc \in {"parse", "done"} /\ lines # <<>>) =>
    /\ Concat([k \in 1..Len(Body) |-> NodeEvents(Body[k])]) \o Pending =
         Concat([k \in 1..(idx - 1) |-> LineEvents(lines[k])])
    /\ pc = "parse" => ~(table_rows # <<>> /\ current_list # <<>>)
    /\ (pc = "parse" /\ in_table) => current_list = <<>>
    /\ (pc = "parse" /\ ~in_table) => table_rows = <<>>

\* a list item, a table line and a list item again, all in the document
C9_Witness ==
  /\ pc = "done"
  /\ Len(lines) = 3
  /\ IsBullet(lines[1])
  /\ IsTableLine(lines[2]) /\ LineEvents(lines[2]) # <<>>
  /\ IsBullet(lines[3])
  /\ Len(TablesIn(Body)) = 1

(***************************************************************************)
(* C11: what an export produces when it runs alone, written as a function  *)
(* of its input: the lines of _parse_and_add_content folded over a parser  *)
(* state, then the three categories mined from the same content            *)
(***************************************************************************)
ParserState(d, list, table, rows) ==
  [doc |-> d, current_list |-> list, in_table |-> table, table_rows |-> rows]

ClosedOf(st) == IF st.in_table THEN AddTable(st.doc, st.table_rows) ELSE st.doc

RowsLeft(st) == IF st.in_table THEN <<>> ELSE st.table_rows

AfterLine(st, line) ==
  IF IsTableLine(line)
  THEN ParserState(IF st.in_table THEN st.doc
                   ELSE FlushList(st.doc, st.current_list),
                   IF st.in_table THEN st.current_list ELSE <<>>,
                   TRUE,
                   WithRow(IF st.in_table THEN st.table_rows ELSE <<>>, line))
  ELSE IF HeadingLevel(line) > 0
  THEN ParserState(Append(FlushList(ClosedOf(st), st.current_list),
                          Heading(Strip(Drop(line, HeadingLevel(line) + 1)),
                                  HeadingLevel(line))),
                   <<>>, FALSE, RowsLeft(st))
  ELSE IF IsBullet(line)
  THEN ParserState(ClosedOf(st),
                   Append(st.current_list, Drop(Strip(line), 2)),
                   FALSE, RowsLeft(st))
  ELSE IF NumberedEnd(line) > 0
  THEN ParserState(ClosedOf(st),
                   IF NumberedItem(line) # <<>>
                   THEN Append(st.current_list, NumberedItem(line))
                   ELSE st.current_list,
                   FALSE, RowsLeft(st))
  ELSE IF Strip(line) # <<>>
  THEN ParserState(AddFormattedParagraph(
                     FlushList(ClosedOf(st), st.current_list), line),
                   <<>>, FALSE, RowsLeft(st))
  ELSE ParserState(FlushList(ClosedOf(st), st.current_list),
                   <<>>, FALSE, RowsLeft(st))

RECURSIVE AfterLines(_, _, _)
AfterLines(st, ls, i) ==
  IF i > Len(ls) THEN st ELSE AfterLines(AfterLine(st, ls[i]), ls, i + 1)

AtEnd(st) ==
  FlushList(IF st.in_table /\ st.table_rows # <<>>
            THEN AddTable(st.doc, st.table_rows) ELSE st.doc, st.current_list)

ParsedAlone(text, name) ==
  AtEnd(AfterLines(ParserState(Preamble(name), <<>>, FALSE, <<>>),
                   Split(text, "\n"), 1))

ChartsAlone(text) ==
  WithChart(WithChart(WithChart(<<>>, "bar",
                                ExtractGenericData(text, TypeKeywords),
                                <<"I","s","s","u","e","s"," ","b","y"," ","T","y","p","e">>),
                      "pie", ExtractGenericData(text, StatusKeywords),
                      <<"I","s","s","u","e","s"," ","b","y"," ","S","t","a","t","u","s">>),
            "bar_horizontal", ExtractGenericData(text, PriorityKeywords),
            <<"I","s","s","u","e","s"," ","b","y"," ","P","r","i","o","r","i","t","y">>)

WithImages(d, cs) ==
  IF cs # <<>> THEN AddChartImages(Append(d, Heading(<<"V","i","s","u","a","l","i","z","a","t","i","o","n","s">>, 1)), cs)
  ELSE d

ReportAlone(text, name) ==
  IF text = <<>>
  THEN Append(Preamble(name),
              Paragraph(PlainRuns(<<"N","o"," ","c","o","n","t","e","n","t"," ","a","v","a","i","l","a","b","l","e",".">>), ""))
  ELSE WithImages(ParsedAlone(text, name), ChartsAlone(text))

\* the content an export takes from the session for its own analysis text
ContentAlone(text) ==
  AnalysisText(text, conversation_history, last_response).text

IsAlone(r) ==
  r.pc = "done" =>
    /\ r.content = ContentAlone(r.analysis_text)
    /\ r.doc = ReportAlone(r.content, r.filename)
    /\ r.charts = (IF r.content = <<>> THEN <<>> ELSE ChartsAlone(r.content))

WorkingString(response) ==
  JsonStr(HtmlUnescape(response), ContentMatch(HtmlUnescape(response)))

\* the working string is no JSON, and it does not start with a brace, or no
\* closing brace brings the brace count back to 0, or the prefix up to that
\* brace is no JSON either
NoJsonIn(s) ==
  /\ ~JsonLoads(s).ok
  /\ \/ ~StartsWith(s, <<"{">>)
     \/ BraceEnd(s) = 0
     \/ ~JsonLoads(SubSeq(s, 1, BraceEnd(s))).ok

\* C12: terminal fallback: when the working string is no valid JSON and the
\* prefix scan fails too, or the string does not start with a brace,
\* extract_readable_content returns the HTML-unescaped input verbatim (the
\* tags and the surrounding whitespace included) and raises nothing.
C12_TerminalFallback ==
  /\ \A f \in FallbackInputs : NoJsonIn(WorkingString(f))
  /\ (pc # "extract_readable_content" /\ NoJsonIn(WorkingString(last_response)))
       => /\ pc = "returned"
          /\ content = HtmlUnescape(last_response)
          /\ last_response = <<"{","&","q","u","o","t",";","a","&","q","u","o","t",";">> => content = <<"{","\"","a","\"">>
          /\ last_response = <<" "," ","{","x","}"," ","y"," "," ">> => content = last_response
          /\ last_response = <<"<","c","o","n","t","e","n","t",">","{","o","o","p","s","}","<","/","c","o","n","t","e","n","t",">"," ","t","a","i","l">>
               => content = last_response

\* a response with entities whose decoded text starts with a brace and is no
\* JSON has been returned decoded
C12_Witness ==
  /\ pc = "returned"
  /\ last_response = <<"{","&","q","u","o","t",";","a","&","q","u","o","t",";">>
  /\ content = <<"{","\"","a","\"">>

(***************************************************************************)
(* Mappings without a component key                                        *)
(***************************************************************************)
\* each mapping with its JSON text
MappingTable == {[m |-> m, json |-> MappingText(m)] : m \in Mappings}

NonEmpty(texts) == SelectSeq(texts, LAMBDA t : t # <<>>)

\* the keys of the mapping among content, children, sections, items, rows,
\* in that order, as the options given for them
PriorityOpts(m) ==
  SelectSeq(<<m.content, m.children, m.sections, m.items, m.rows>>,
            LAMBDA o : o.has)

\* the texts the values under those keys reduce to
PriorityTexts(m) ==
  NonEmpty([i \in 1..Len(PriorityOpts(m)) |-> PriorityOpts(m)[i].text])

\* the texts of the values under the keys that are not skipped, in the order
\* of the mapping
OtherTexts(m) ==
  NonEmpty(<<m.title.text, m.rows.text, m.items.text, m.sections.text,
             m.children.text, m.content.text, m.note.text>>)

ReturnedFor(json) == pc = "returned" /\ last_response = json

\* C13 as claimed: the output of a mapping with one of the priority keys is
\* the reduction of the value under the first of them that is present, and
\* the values under the later ones do not contribute.
C13_FirstPresentKeyOnly ==
  \A e \in MappingTable :
    (ReturnedFor(e.json) /\ PriorityOpts(e.m) # <<>>)
      => content = PriorityOpts(e.m)[1].text

\* C13 as amended: the keys content, children, sections, items and rows are
\* tried in that order whatever the order of the mapping, and the output is
\* the reductions of the values under all of them that are present, the empty
\* ones dropped, joined with a blank line.
C13_EveryPresentKeyInOrder ==
  \A e \in MappingTable :
    (pc # "extract_readable_content" /\ last_response = e.json
       /\ PriorityTexts(e.m) # <<>>)
      => /\ pc = "returned"
         /\ content = Join(PriorityTexts(e.m), <<"\n","\n">>)

\* a mapping written rows first and content last, with three priority keys
\* that reduce to a text, has been reduced
C13_Witness ==
  /\ pc = "returned"
  /\ last_response = <<"{","\"","r","o","w","s","\"",":","\"","R","\"",",","\"","c","h","i","l","d","r","e","n","\"",":","[","\"","D","\"",",","\"","E","\"","]",",","\"","c","o","n","t","e","n","t","\"",":","\"","C","\"","}">>
  /\ content = <<"C","\n","\n","D","\n","\n","E","\n","\n","R">>

\* C14 as claimed: every value is reduced if and only if none of the priority
\* keys is in the mapping, and then the values under the skipped keys
\* contribute no text.
C14_FallbackIffNoPriorityKey ==
  \A e \in MappingTable :
    ReturnedFor(e.json)
      => content = IF PriorityOpts(e.m) = <<>>
                   THEN Join(OtherTexts(e.m), <<"\n","\n">>)
                   ELSE Join(PriorityTexts(e.m), <<"\n","\n">>)

\* C14 as amended: every value is reduced if and only if no priority key of
\* the mapping reduced to a text (none is there, or those that are there
\* reduce to the empty text), and then the values under the keys iconName,
\* iconCategory, variant, type, isFoldable and value contribute no text.
C14_FallbackIffNothingExtracted ==
  \A e \in MappingTable :
    (pc # "extract_readable_content" /\ last_response = e.json)
      => /\ pc = "returned"
         /\ content = IF PriorityTexts(e.m) = <<>>
                      THEN Join(OtherTexts(e.m), <<"\n","\n">>)
                      ELSE Join(PriorityTexts(e.m), <<"\n","\n">>)

\* a mapping with the six skipped keys and with priority keys that reduce to
\* no text has been reduced to its title and its note
C14_Witness ==
  /\ pc = "returned"
  /\ \E e \in MappingTable :
       /\ last_response = e.json
       /\ e.m.deny
       /\ e.m.content.has /\ e.m.rows.has
       /\ PriorityTexts(e.m) = <<>>
  /\ content = <<"T","\n","\n","N">>

(***************************************************************************)
(* Components with children and content arrays                             *)
(***************************************************************************)
NestedTable == {[c |-> c, json |-> NestedText(c)] : c \in Nested}

\* the texts added to parts when each child is reduced and appended unless it
\* is empty or already there; plain makes the plain strings count as well
RECURSIVE AddNew(_, _, _)
AddNew(parts, children, plain) ==
  IF children = <<>> THEN parts
  ELSE AddNew(IF /\ children[1].dict \/ plain
                 /\ children[1].text # <<>>
                 /\ \A i \in 1..Len(parts) : parts[i] # children[1].text
              THEN Append(parts, children[1].text) ELSE parts,
              Tail(children), plain)

\* the texts of the children that are component mappings, each as often as
\* it is in the array
TextsOf(children) ==
  LET mappings == SelectSeq(children, LAMBDA ch : ch.dict)
  IN [i \in 1..Len(mappings) |-> mappings[i].text]

\* what the branch of the kind emits
OwnParts(c) ==
  c.kind.own \o (IF c.kind.block THEN TextsOf(c.children.of) ELSE <<>>)

\* C15 as claimed: a component of an unknown kind is reduced to the
\* children and the content found under its props, the plain strings among
\* them included, and nothing is raised.
C15_UnknownKindReduced ==
  /\ last_response \in {UnknownNullProps, UnknownNoProps}
       => pc # "raised" /\ content = <<>>
  /\ \A e \in NestedTable :
       (pc # "extract_readable_content" /\ last_response = e.json
          /\ e.c.kind.name = <<"g","a","u","g","e">>)
         => /\ pc = "returned"
            /\ content = Join(AddNew(AddNew(<<>>, e.c.children.of, TRUE),
                                     e.c.content.of, TRUE), <<"\n">>)

\* C18: for every kind the children and the content arrays of props are
\* reduced after the emission of the kind, and a result is appended only if
\* the same string is not among those emitted so far; a mini-card-block,
\* whose own branch reduces props.children, has the text of each child as
\* often as the child is in the array.
C18_PostStepAddsOnlyNew ==
  \A e \in NestedTable :
    (pc # "extract_readable_content" /\ last_response = e.json)
      => /\ pc = "returned"
         /\ content = Join(NonEmpty(AddNew(AddNew(OwnParts(e.c),
                                                  e.c.children.of, FALSE),
                                           e.c.content.of, FALSE)), <<"\n">>)
         /\ (e.c.kind.block /\ ~e.c.content.has)
              => content = Join(TextsOf(e.c.children.of), <<"\n">>)

\* a mini-card-block with the same child twice in children, and with a
\* content array that holds that child again and a new one, has been reduced
C18_Witness ==
  /\ pc = "returned"
  /\ \E e \in NestedTable :
       /\ last_response = e.json
       /\ e.c.kind.block
       /\ e.c.children = ListOf(<<ChildX, ChildX>>)
       /\ e.c.content = ListOf(<<ChildZ, ChildX>>)
  /\ content = <<"x","\n","x","\n","z">>

(***************************************************************************)
(* Charts                                                                  *)
(***************************************************************************)
ChartTable == {[c |-> c, json |-> ChartText(c)] : c \in Charts}

\* one bullet for each pair of zip(labels, values)
Bullets(labels, values) ==
  [i \in 1..(IF Len(labels) <= Len(values) THEN Len(labels) ELSE Len(values))
     |-> <<"-"," ">> \o labels[i] \o <<":"," ">> \o values[i]]

\* the bullets of the series from the k-th on, one series after the other
RECURSIVE SeriesBullets(_, _, _)
SeriesBullets(labels, series, k) ==
  IF k > Len(series) THEN <<>>
  ELSE Bullets(labels, series[k].of) \o SeriesBullets(labels, series, k + 1)

TitleLine(c) == IF c.title THEN <<<<"#","#","#"," ","T">>>> ELSE <<>>

\* the bullets of the top-level array: values, or data when there is no
\* values array
TopBullets(c) ==
  Bullets(c.labels, IF c.values.has THEN c.values.of ELSE c.data.of)

\* C16 as claimed: with labels and one or more series there is one bullet
\* "- label: value" for each pair of the first series only, at most one for
\* each label; a top-level values/data array is zipped with the labels only
\* when there is no series.
C16_FirstSeriesOnly ==
  \A e \in ChartTable :
    (pc # "extract_readable_content" /\ last_response = e.json)
      => /\ pc = "returned"
         /\ content = Join(TitleLine(e.c) \o
                           (IF e.c.series.of # <<>>
                            THEN Bullets(e.c.labels, e.c.series.of[1].of)
                            ELSE TopBullets(e.c)), <<"\n">>)

\* C16 as amended: with labels and one or more series there is one bullet
\* "- label: value" for each pair of each series, series after series, at
\* most one for each label and series; a top-level values/data array is
\* zipped with the labels only when there is no series.
C16_EverySeries ==
  \A e \in ChartTable :
    (pc # "extract_readable_content" /\ last_response = e.json)
      => /\ pc = "returned"
         /\ content = Join(TitleLine(e.c) \o
                           (IF e.c.series.of # <<>>
                            THEN SeriesBullets(e.c.labels, e.c.series.of, 1)
                            ELSE TopBullets(e.c)), <<"\n">>)

\* a chart with two labels, two series and a values array has been reduced to
\* four bullets
C16_Witness ==
  /\ pc = "returned"
  /\ \E e \in ChartTable :
       /\ last_response = e.json
       /\ Len(e.c.labels) = 2
       /\ Len(e.c.series.of) = 2
       /\ e.c.values.has
       /\ ~e.c.title
  /\ content = <<"-"," ","a",":"," ","1","\n","-"," ","b",":"," ","2","\n","-"," ","a",":"," ","3","\n","-"," ","b",":"," ","4">>

(***************************************************************************)
(* Tables                                                                  *)
(***************************************************************************)
TableTable == {[t |-> t, json |-> TableText(t)] : t \in Tables}

\* "| c1 | c2 |" with each cell as the value it shows
ShownLine(cells) ==
  <<"|"," ">> \o Join([i \in 1..Len(cells) |-> cells[i].text], <<" ","|"," ">>) \o <<" ","|">>

DashLine(n) == <<"|"," ">> \o Join([i \in 1..n |-> <<"-","-","-">>], <<" ","|"," ">>) \o <<" ","|">>

\* C17: a table is reduced to the header line, a separator line with as
\* many dash groups as there are header cells, and one line for each body
\* row in the order of the rows; a cell given as {children: v} is rendered
\* as v in the header and in the body rows alike.
C17_TableLines ==
  \A e \in TableTable :
    (pc # "extract_readable_content" /\ last_response = e.json)
      => /\ pc = "returned"
         /\ content =
              Join((IF e.t.header.of # <<>>
                    THEN <<ShownLine(e.t.header.of),
                           DashLine(Len(e.t.header.of))>>
                    ELSE <<>>)
                   \o [i \in 1..Len(e.t.body) |-> ShownLine(e.t.body[i].cells)],
                   <<"\n">>)

(***************************************************************************)
(* The miner on the rows of a markdown table, checked on the calls of      *)
(* SpecMine                                                                *)
(***************************************************************************)
\* the cells of the rows of the text whose first cell is the keyword
KeywordRows(text, kw) ==
  LET ls == Split(text, "\n")
      rows == SelectSeq(ls, LAMBDA l :
                IF IsTableLine(l) /\ Len(Split(l, "|")) > 2
                THEN ToLower(Cells(l)[1]) = ToLower(kw) ELSE FALSE)
  IN [i \in 1..Len(rows) |-> Cells(rows[i])]

IsNumeric(cell) == cell # <<>> /\ \A i \in 1..Len(cell) : IsDigit(cell[i])

\* the cells after the first that are a number
NumericCells(row) ==
  SelectSeq(SubSeq(row, 2, Len(row)), IsNumeric)

Last(s) == s[Len(s)]

\* C19: pattern 4 captures, for a row whose first cell is the keyword, the
\* last numeric cell of the row (12 at the end of "| Bug | 3 | 12 |"); of
\* several matches in the text the last one is taken, where the other
\* patterns take their first match.
C19_LastNumericCellOfLastRow ==
  Mined1 =>
    /\ \A i \in 1..Len(keywords) :
         (/\ Hits(content, keywords[i]) # {}
          /\ Lowest(Hits(content, keywords[i]) \cup {4}) = 4
          /\ 4 \in Hits(content, keywords[i]))
           => /\ HasData(data, keywords[i])
              /\ KeywordRows(content, keywords[i]) # <<>>
              /\ NumericCells(Last(KeywordRows(content, keywords[i]))) # <<>>
              /\ DataGet(data, keywords[i]) =
                   Number(IntMatch(Last(NumericCells(
                     Last(KeywordRows(content, keywords[i]))))))
    /\ (content = <<"|"," ","B","u","g"," ","|"," ","3"," ","|"," ","1","2"," ","|">> /\ keywords[1] = <<"B","u","g">>)
         => DataGet(data, <<"B","u","g">>) = IntValue(12)
    /\ (content = <<"B","u","g",":"," ","1","2","\n","B","u","g",":"," ","1",","," ","O","p","e","n",":"," ","2",","," ","L","o","w",":"," ","3">> /\ keywords[1] = <<"B","u","g">>)
         => DataGet(data, <<"B","u","g">>) = IntValue(12)

(***************************************************************************)
(* Blank lines in the report parser, checked on the steps of SpecReport    *)
(***************************************************************************)
\* the parser reads a blank line while table rows are being accumulated
BlankInTable ==
  /\ pc = "parse"
  /\ idx <= Len(lines)
  /\ in_table
  /\ Strip(lines[idx]) = <<>>

\* C20 as claimed: a blank line terminates a pending list but not a table:
\* read while table rows are being accumulated, it leaves the parser in the
\* table state with the rows it has.
C20_BlankLineKeepsTable ==
  [][BlankInTable => (in_table' /\ table_rows' = table_rows)]_vars

\* C20 as amended: a blank line terminates a pending list and a table alike:
\* read while table rows are being accumulated, it adds the table of these
\* rows to the document, if there is a row, and leaves the parser outside
\* the table state with no rows; read after list items, it adds the items to
\* the document and leaves no pending list.
C20_BlankLineEndsTable ==
  [][(pc = "parse" /\ idx <= Len(lines) /\ Strip(lines[idx]) = <<>>)
       => /\ ~in_table'
          /\ table_rows' = <<>>
          /\ current_list' = <<>>
          /\ in_table =>
               TablesIn(doc') =
                 TablesIn(doc) \o (IF table_rows = <<>> THEN <<>>
                                   ELSE <<Table(Padded(table_rows))>>)
          /\ ~in_table =>
               /\ TablesIn(doc') = TablesIn(doc)
               /\ Len(doc') = Len(doc) + Len(current_list)]_vars

\* two table lines with a blank line between them are in two tables
C20_Witness ==
  /\ pc = "done"
  /\ Len(lines) = 3
  /\ IsTableLine(lines[1]) /\ LineEvents(lines[1]) # <<>>
  /\ Strip(lines[2]) = <<>>
  /\ IsTableLine(lines[3]) /\ LineEvents(lines[3]) # <<>>
  /\ Len(TablesIn(Body)) = 2

(***************************************************************************)
(* The whole output of the report parser, checked on the runs of           *)
(* SpecReport: what the document shows, node by node, against what the     *)
(* lines stand for, line by line                                           *)
(***************************************************************************)
Shown(kind, level, cells, runs) ==
  [kind |-> kind, level |-> level, cells |-> cells, runs |-> runs]

\* what the k-th node shows: a heading, a paragraph, an item of a list, the
\* rows of a table; the empty paragraph _add_table puts after a table shows
\* nothing
ShownByNode(nodes, k) ==
  LET n == nodes[k]
  IN IF n.kind = "table"
     THEN [r \in 1..Len(n.rows) |-> Shown("row", 0, Unpadded(n.rows[r]), <<>>)]
     ELSE IF n.kind = "heading" THEN <<Shown("heading", n.level, <<>>, n.runs)>>
     ELSE IF n.kind = "paragraph" /\ n.style = "List Bullet"
     THEN <<Shown("item", 0, <<>>, n.runs)>>
     ELSE IF n.kind = "paragraph" /\ n.runs = <<>> /\ k > 1
     THEN IF nodes[k - 1].kind = "table" THEN <<>>
          ELSE <<Shown("paragraph", 0, <<>>, n.runs)>>
     ELSE IF n.kind = "paragraph" THEN <<Shown("paragraph", 0, <<>>, n.runs)>>
     ELSE <<>>

\* what a line stands for
ShownByLine(line) ==
  IF IsTableLine(line)
  THEN IF ~IsSeparator(line) /\ Cells(line) # <<>>
       THEN <<Shown("row", 0, Unpadded(Cells(line)), <<>>)>>
       ELSE <<>>
  ELSE IF HeadingLevel(line) > 0
  THEN <<Shown("heading", HeadingLevel(line), <<>>,
               PlainRuns(Strip(Drop(line, HeadingLevel(line) + 1))))>>
  ELSE IF IsBullet(line)
  THEN <<Shown("item", 0, <<>>, AddFormattedText(Drop(Strip(line), 2)))>>
  ELSE IF NumberedEnd(line) > 0
  THEN IF NumberedItem(line) # <<>>
       THEN <<Shown("item", 0, <<>>, AddFormattedText(NumberedItem(line)))>>
       ELSE <<>>
  ELSE IF Strip(line) # <<>>
  THEN <<Shown("paragraph", 0, <<>>, AddFormattedText(line))>>
  ELSE <<>>

\* C21: end of input and flush discipline: when the last line has been
\* processed no list item and no table row is left pending: every list item
\* and every table row the parser accepted is in the document exactly once,
\* and the headings, paragraphs, list items and table rows of the document
\* are those of the lines, in the order of the lines.
C21_EverythingEmittedInOrder ==
  (pc = "done" /\ lines # <<>>) =>
    Concat([k \in 1..Len(Body) |-> ShownByNode(Body, k)]) =
      Concat([k \in 1..Len(lines) |-> ShownByLine(lines[k])])

\* the input ends while a list is pending after a heading and a table row,
\* and the document ends with the item of the list
C21_Witness ==
  /\ pc = "done"
  /\ Len(lines) = 3
  /\ IsTableLine(lines[1]) /\ ShownByLine(lines[1]) # <<>>
  /\ HeadingLevel(lines[2]) > 0
  /\ IsBullet(lines[3])
  /\ Body[Len(Body)].style = "List Bullet"

(***************************************************************************)
(* Lists of the report: the lines of one list are consecutive list lines,  *)
(* and the document holds one paragraph per item                           *)
(***************************************************************************)
IsListLine(line) ==
  /\ ~IsTableLine(line)
  /\ HeadingLevel(line) = 0
  /\ IsBullet(line) \/ NumberedEnd(line) > 0

IsNumberedLine(line) == IsListLine(line) /\ ~IsBullet(line)

Indexes(s) == [k \in 1..Len(s) |-> k]

\* the lines that are list items, and the nodes that are items of a list
ListLines == SelectSeq(Indexes(lines), LAMBDA k : IsListLine(lines[k]))
ItemNodes ==
  SelectSeq(Indexes(Body),
            LAMBDA k : Body[k].kind = "paragraph"
                       /\ Body[k].style \in {"List Bullet", "List Number"})

\* lines i and j belong to one list: only list lines lie between them
SameList(i, j) ==
  \A k \in 1..Len(lines) :
    ((i <= k /\ k <= j) \/ (j <= k /\ k <= i)) => IsListLine(lines[k])

HasNumbered(i) ==
  \E j \in 1..Len(lines) : SameList(i, j) /\ IsNumberedLine(lines[j])

ReadableOf(response) ==
  IF response = TextInput THEN <<"B","u","g",":"," ","1","2">>
  ELSE IF response = HeaderInput THEN <<"#","#"," ","S","u","m","m","a","r","y">>
  ELSE IF response = NumberedInput THEN <<"1","."," ","C","l","o","s","e","d"," ","3">>
  ELSE <<>>

SectionOf(entry) ==
  IF entry.role = "user"
  THEN <<"#","#"," ","Q","u","e","s","t","i","o","n">> \o <<"\n">> \o entry.content \o <<"\n">>
  ELSE <<"#","#"," ","A","n","a","l","y","s","i","s">> \o <<"\n">> \o ReadableOf(entry.content) \o <<"\n">>

RECURSIVE SectionsOf(_)
SectionsOf(history) ==
  IF Len(history) = 1 THEN SectionOf(history[1])
  ELSE SectionOf(Head(history)) \o <<"\n", "-", "-", "-", "\n", "\n">>
       \o SectionsOf(Tail(history))

TranscriptOf(history, response) ==
  IF history = <<>> THEN ReadableOf(response) ELSE SectionsOf(history)

\* C23: the export transcript has one section per history entry, in history
\* order: '## Question' and the prompt for a user entry, '## Analysis' and
\* the extractor's output for an assistant entry, the sections joined by
\* "\n---\n\n"; with an empty history it is the extraction of last_response,
\* or the empty string if there is none.  Stated of the session in every
\* state, and of the text an export through the routes hands to the report
\* (where an empty transcript is replaced by the placeholder).
C23_TranscriptOfHistory ==
  /\ [](FormatConversationForExport(conversation_history, last_response)
          = XOk(TranscriptOf(conversation_history, last_response)))
  /\ [][(ExportPdf /\ pc' = "exported" /\ analysis_text' = None) =>
          content' = IF TranscriptOf(conversation_history, last_response) = <<>>
                     THEN <<"N","o"," ","a","n","a","l","y","s","i","s"," ","a","v","a","i","l","a","b","l","e",".">>
                     ELSE TranscriptOf(conversation_history, last_response)]_vars

\* an export of two questions with their answers
C23_Witness ==
  /\ call = "export_pdf" /\ pc = "exported" /\ analysis_text = None
  /\ Len(conversation_history) = 4
  /\ conversation_history[2].role = "assistant"
  /\ conversation_history[4].role = "assistant"
  /\ content = SectionsOf(conversation_history)

(***************************************************************************)
(* The two session stores, on the runs of SpecStores                       *)
(***************************************************************************)
\* C24: the session storage of the chat handler is shared with the routes:
\* the session the chat handler gets for an id is the session of that id in
\* the store of the routes, with the same data_loaded, conversation_history,
\* last_response and document, whichever side created or loaded it.
C24_SharedStorage ==
  GetSession(chat_sessions, SessionId)[SessionId] = RoutesSession

(***************************************************************************)
(* Uploads, chats and exports on one session, on the runs of SpecSession   *)
(***************************************************************************)
\* C25: after a successful upload the conversation of the previous document
\* is cleared: an export without a given text, requested while the history
\* is still empty (no chat turn since the upload), holds no text of an
\* earlier response: it is the placeholder 'No analysis available.'.
C25_ExportAfterUploadIsPlaceholder ==
  [][(ExportPdf /\ pc' = "exported" /\ analysis_text' = None
        /\ conversation_history = <<>>) =>
       content' = <<"N","o"," ","a","n","a","l","y","s","i","s"," ","a","v","a","i","l","a","b","l","e",".">>]_vars

\* C26: in every reachable state of a session, under any interleaving of
\* chat and upload requests and with chats whose call of the model fails,
\* every assistant entry of conversation_history comes right after the user
\* entry of the same chat request.
C26_AnswerFollowsItsQuestion ==
  \A i \in 1..Len(conversation_history) :
    conversation_history[i].role = "assistant" =>
      /\ i > 1
      /\ conversation_history[i - 1].role = "user"
      /\ conversation_history[i - 1].content \in Prompts
      /\ Answer(conversation_history[i - 1].content) = conversation_history[i].content

\* C27: a failed upload changes nothing: on a step of the upload handler in
\* which load_excel reports failure, the document state of the session
\* (content, filename, raw data), data_loaded and conversation_history are
\* what they were before.
C27_FailedUploadChangesNothing ==
  [][(\E file \in Files :
        /\ IsExcelName(file.name)
        /\ ~LoadExcel(document_service, file).success
        /\ SetRoutes(Uploaded(RoutesSession, file))) =>
       UNCHANGED <<document_service, data_loaded, conversation_history>>]_vars

(***************************************************************************)
(* Keywords inside other words, on the runs of SpecMine                    *)
(***************************************************************************)
SubTaskLine == <<"S","u","b","-","t","a","s","k",":"," ","3">>

\* C29: keyword matching is not anchored at word boundaries: a keyword is
\* matched wherever it occurs as a substring, in any case.  For a text that
\* starts with "Sub-task: 3", as "Sub-task: 3\nTask: 5" does, the type
\* category yields Task = 3, taken from inside 'Sub-task', as well as
\* Sub-task = 3, whatever follows; and the lower-case row "| bug | 9 |"
\* yields Bug = 9.
C29_KeywordInsideWord ==
  (call = "_extract_all_chart_data" /\ pc = "done") =>
    /\ StartsWith(content, SubTaskLine) =>
         /\ HasData(type_data, <<"T","a","s","k">>)
         /\ DataGet(type_data, <<"T","a","s","k">>) = IntValue(3)
         /\ HasData(type_data, <<"S","u","b","-","t","a","s","k">>)
         /\ DataGet(type_data, <<"S","u","b","-","t","a","s","k">>) = IntValue(3)
    /\ content = <<"|"," ","b","u","g"," ","|"," ","9"," ","|">> =>
         type_data = [keys |-> <<<<"B","u","g">>>>, vals |-> <<IntValue(9)>>]

\* the text of the claim has been mined
C29_Witness ==
  /\ call = "_extract_all_chart_data" /\ pc = "done"
  /\ content = SubTaskLine \o <<"\n">> \o <<"T","a","s","k",":"," ","5">>
  /\ type_data = [keys |-> <<<<"T","a","s","k">>, <<"S","u","b","-","t","a","s","k">>>>,
                  vals |-> <<IntValue(3), IntValue(3)>>]
  /\ charts # <<>>

(***************************************************************************)
(* The PDF service against the Word service, on the runs of                *)
(* SpecBothReports and SpecBothMiners                                      *)
(***************************************************************************)
KindOf(shown) == [kind |-> shown.kind, level |-> shown.level]

\* the kinds of what the Word document shows, in order
WordKinds ==
  Concat([k \in 1..Len(Body) |->
            [e \in 1..Len(ShownByNode(Body, k)) |->
               KindOf(ShownByNode(Body, k)[e])]])

\* the kind of the k-th flowable of a story: a section header is a heading
\* of level 2, a body paragraph after a spacer a heading of level 3, a body
\* paragraph that starts with the bullet an item, any other a paragraph
KindInStory(story, k) ==
  IF story[k].kind = "spacer" THEN <<>>
  ELSE IF story[k].kind = "table"
  THEN [r \in 1..Len(story[k].rows) |-> [kind |-> "row", level |-> 0]]
  ELSE IF story[k].style = "SectionHeader"
  THEN <<[kind |-> "heading", level |-> 2]>>
  ELSE IF k > 1 /\ story[IF k > 1 THEN k - 1 ELSE 1].kind = "spacer"
  THEN <<[kind |-> "heading", level |-> 3]>>
  ELSE IF StartsWith(story[k].runs[1].text, <<Bullet, " ">>)
  THEN <<[kind |-> "item", level |-> 0]>>
  ELSE <<[kind |-> "paragraph", level |-> 0]>>

PdfKinds(story) == Concat([k \in 1..Len(story) |-> KindInStory(story, k)])

\* C28: the PDF path and the Word path reconstruct the same structure from
\* the same text: both classify every line the same way (table row, heading
\* of level 1, 2 or 3, list item, blank, prose) and flush lists at the same
\* points, so that both emit the same sequence of headings, list items,
\* table rows and paragraphs.
C28_SameStructure ==
  (pc = "both" /\ call = "generate_report" /\ lines # <<>>) =>
    PdfKinds(other.story) = WordKinds

\* C30: the PDF and the Word service mine identically: for every text and
\* keyword list the two _extract_generic_data return the same mapping (same
\* keywords in the same order with the same numbers), and the two
\* _extract_all_chart_data return the same list of chart descriptors (same
\* kinds, titles, labels and values in the same order).
C30_SameMining ==
  pc = "both" =>
    /\ call = "_extract_generic_data" =>
         other.data = data /\ other.pc = "_extract_generic_data"
    /\ call = "_extract_all_chart_data" =>
         other.charts = charts /\ other.pc = "_extract_all_chart_data"

\* both services have mined a percentage and an integer from one text
C30_Witness ==
  /\ pc = "both"
  /\ call = "_extract_generic_data"
  /\ Len(other.data.keys) >= 2
  /\ \E i \in 1..Len(other.data.vals) : other.data.vals[i].float
  /\ \E i \in 1..Len(data.vals) : ~data.vals[i].float
====
